---- MODULE Spec2Model ----
(***************************************************************************)
(* Model of the prediction backend: the ingestion handlers of the cron     *)
(* service (several generations of services/cronService.js that all write *)
(* the same MongoDB collections), the forecast generator (aiService.js),   *)
(* and the result grader.  The Store is the pair of collections `matches`  *)
(* and `predictions`; a document's position in the sequence is its _id.    *)
(*                                                                         *)
(* Time is counted in retention windows: one unit is 24 hours.             *)
(* Probabilities are counted in percent: 60 stands for 0.6.                *)
(***************************************************************************)
EXTENDS Integers, Sequences, FiniteSets, TLC

\* ------------------------------------------------------------ bounds
MaxFixtureId == 2
MaxTime == 1
MaxMatches == 2
MaxPredictions == 2
MaxTeams == 3
MaxHistory == 2

\* ------------------------------------------------- program constants
\* 24 * 60 * 60 * 1000 ms, one time unit of the model
Window == 1
MinConfidence == 90
NumModels == 6
maxRetries == 1
safeGetRetries == 3
maxRetries016 == 2
h2hCap == 10

\* null / undefined in a number-valued field
Null == 0 - 1
\* null / undefined team reference
NoTeam == "none"

Buckets == {"vip", "daily2", "value5", "big10"}
GeneratorStatuses == {"scheduled", "upcoming", "tba"}

VARIABLES
  now,          \* the clock (Date.now()), in windows
  matches,      \* the Match collection
  predictions,  \* the Prediction collection
  ret,          \* what the last handler returned to its caller
  version,      \* which generation of services/cronService.js is deployed
  aiScript,     \* what the oracle answers, call after call, to one callGenerativeAI
  aiResult,     \* what that callGenerativeAI call gave
  orchPrimary,  \* the last fetchAndStoreUpcomingMatches run: what the primary did
  orchFallback, \* ... and what the fallback did
  genFailed,    \* the matches the last generateAllPredictions logged a failure for
  dateIn,       \* the date and time strings of a feed item handed to the date parser
  dateOut,      \* the instant the parser gave, <<>> for null
  legacy,       \* what Date's implementation-defined parser does with a non-ISO date
  httpScript,   \* what the provider answers to one URL, GET after GET
  httpResult,   \* what the HTTP call of the handler gave: response or error, and the GETs made
  runs,         \* two ingestion runs in flight: the item each is at, and where in its loop body
  genAI,        \* whether GEMINI_API_KEY is set, so that aiService.js has a client
  teams,        \* the Team collection
  history,      \* the History collection
  fnArgs,       \* the arguments a helper function is called with
  fnValue       \* the value it returned

aiVars == <<aiScript, aiResult>>
orchVars == <<orchPrimary, orchFallback>>
genVars == <<genFailed>>
parseVars == <<dateIn, dateOut, legacy>>
httpVars == <<httpScript, httpResult>>
concVars == <<runs>>
envVars == <<genAI, teams, history>>
fnVars == <<fnArgs, fnValue>>
auxVars == <<parseVars, httpVars, concVars, envVars, fnVars>>
vars == <<now, matches, predictions, ret, version,
          aiScript, aiResult, orchPrimary, orchFallback, genFailed, auxVars>>

\* ----------------------------------------------------------- helpers
\* findOne: the first document in natural order that matches, 0 when none
FirstIdx(s, P(_)) ==
  IF \E i \in 1..Len(s) : P(s[i])
  THEN CHOOSE i \in 1..Len(s) : P(s[i]) /\ \A j \in 1..(i - 1) : ~P(s[j])
  ELSE 0

SeqsUpTo(S, n) == UNION {[1..k -> S] : k \in 0..n}

Min(a, b) == IF a < b THEN a ELSE b
Max(a, b) == IF a > b THEN a ELSE b

Times == 0..MaxTime
FixtureIds == 1..MaxFixtureId

\* ------------------------------------------------------------- Store
\* A Match document.  externalId is the key of the SoccersAPI and OpenLigaDB
\* writers, a tuple <<prefix, id>> for the string `prefix-id`, <<>> when the
\* document has none; static_id is the key of the Goalserve writer.
MatchDoc(src, xid, sid, st, date, hg, ag, home, away, upd) ==
  [source |-> src, externalId |-> xid, static_id |-> sid, status |-> st,
   matchDateUtc |-> date, homeGoals |-> hg, awayGoals |-> ag,
   homeTeam |-> home, awayTeam |-> away, createdAt |-> upd, updatedAt |-> upd]

\* what a handler returns: its counter, and whether it reports an error
Ret(op, n, err) == [op |-> op, n |-> n, err |-> err]

\* no callGenerativeAI call made yet; no provider called in the last run
NoResult == [ok |-> FALSE, list |-> <<>>, model |-> 0, calls |-> 0]
NotRun == [outcome |-> "none", items |-> 0]

\* A Prediction document: outcomes.oneXTwo is <<home, draw, away>>, or <<>>
\* when the outcomes object carries no 1X2 triple.
PredictionDoc(mid, b, x, c, st) ==
  [matchId |-> mid, bucket |-> b, oneXTwo |-> x, confidence |-> c, status |-> st]

\* Prediction.findOneAndUpdate({matchId, bucket}, doc, {upsert: true}): every
\* field of doc is set on the first document with the key, else doc is inserted
UpsertAlwaysInsert(ps, doc) == Append(ps, doc)
UpsertPrediction(ps, doc) ==
  LET i == FirstIdx(ps, LAMBDA r : r.matchId = doc.matchId /\ r.bucket = doc.bucket)
  IN IF i = 0 THEN Append(ps, doc) ELSE [ps EXCEPT ![i] = doc]

\* ------------------------------------------------------------ Oracle
\* What one generateContent call gives: an error (also an empty text), a
\* text extractJSONFromText finds no JSON in, or a JSON array of objects.
OracleObj(x, c, b) == [oneXTwo |-> x, confidence |-> c, bucket |-> b]
RespError == [kind |-> "error", items |-> <<>>]
RespBadJson == [kind |-> "badjson", items |-> <<>>]
RespJson(items) == [kind |-> "json", items |-> items]

\* GenerateMatchPredictionsOutputSchema.parse(item) does not throw
SchemaOk(o) ==
  /\ Len(o.oneXTwo) = 3
  /\ o.confidence >= 0 /\ o.confidence <= 100
  /\ o.bucket \in Buckets

\* One attempt of callGenerativeAI's inner loop on a response: the list it
\* returns, or the failure the catch block sees.  parsed.map(parse) throws as
\* soon as one item fails the schema.
ParseAttempt(r) ==
  IF r.kind = "json" /\ \A i \in 1..Len(r.items) : SchemaOk(r.items[i])
  THEN [ok |-> TRUE, list |-> r.items]
  ELSE [ok |-> FALSE, list |-> <<>>]

\* The k-th response of a scripted oracle; it errors once the script is over.
Resp(script, k) == IF k <= Len(script) THEN script[k] ELSE RespError

\* callGenerativeAI: the models in list order, maxRetries + 1 attempts each,
\* the first attempt that parses and validates is returned; ok = FALSE is the
\* throw of "AI: All models failed to generate predictions."
RECURSIVE CallFrom(_, _, _, _)
CallFrom(script, model, attempt, k) ==
  IF model > NumModels
  THEN [ok |-> FALSE, list |-> <<>>, model |-> 0, calls |-> k]
  ELSE LET a == ParseAttempt(Resp(script, k + 1))
       IN IF a.ok THEN [ok |-> TRUE, list |-> a.list, model |-> model, calls |-> k + 1]
          ELSE IF attempt = maxRetries
               THEN CallFrom(script, model + 1, 0, k + 1)
               ELSE CallFrom(script, model, attempt + 1, k + 1)

\* a caller that stays with the first model of the list
CallFirstModelOnly(script) ==
  LET r == CallFrom(script, NumModels, 0, 0)
  IN IF r.ok THEN [r EXCEPT !.model = 1] ELSE r
\* a caller that does not return the list of its first attempt
CallPastFirstAttempt(script) == CallFrom(script, 1, 1, 1)
callGenerativeAI(script) == CallFrom(script, 1, 0, 0)

Clamp(lo, hi, v) == Max(lo, Min(hi, v))

NormalizePrediction(p) ==
  [oneXTwo |-> <<Clamp(0, 100, p.oneXTwo[1]), Clamp(0, 100, p.oneXTwo[2]),
                 Clamp(0, 100, p.oneXTwo[3])>>,
   confidence |-> Clamp(0, 100, p.confidence),
   bucket |-> p.bucket]

Confident(p) == p.confidence >= MinConfidence

FilterSeq(s, P(_)) ==
  LET F[i \in 0..Len(s)] ==
        IF i = 0 THEN <<>>
        ELSE IF P(s[i]) THEN Append(F[i - 1], s[i]) ELSE F[i - 1]
  IN F[Len(s)]

\* getPredictionsFromAI: the validated list, clamped, then filtered by
\* confidence; ok = FALSE when callGenerativeAI throws
getPredictionsFromAI(script) ==
  LET r == callGenerativeAI(script)
  IN IF ~r.ok THEN [ok |-> FALSE, list |-> <<>>]
     ELSE [ok |-> TRUE,
           list |-> FilterSeq([i \in 1..Len(r.list) |-> NormalizePrediction(r.list[i])],
                              Confident)]

\* ------------------------------------ services/cronService.js (head)
\* A fixture as parseGoalserveMatches returns it; date is what
\* parseGoalserveDate makes of its date and time, Null when it makes nothing.
GsFixture(sid, date, st, home, away) ==
  [static_id |-> sid, date |-> date, status |-> st, home |-> home, away |-> away]

\* Match.findOneAndUpdate({static_id}, matchDoc, {upsert: true, ...}): the
\* fields of matchDoc that are undefined are left as they are
GoalserveInsert(ms, m, t) ==
  Append(ms, MatchDoc("goalserve", <<>>, m.static_id, m.status, m.date,
                      Null, Null, m.home, m.away, t))
GoalserveUpsert(ms, m, t) ==
  LET i == FirstIdx(ms, LAMBDA r : r.static_id = m.static_id)
  IN IF i = 0
     THEN Append(ms, MatchDoc("goalserve", <<>>, m.static_id, m.status, m.date,
                              Null, Null, m.home, m.away, t))
     ELSE [ms EXCEPT ![i] =
             [@ EXCEPT !.status = m.status,
                       !.matchDateUtc = IF m.date = Null THEN @ ELSE m.date,
                       !.homeTeam = IF m.home = NoTeam THEN @ ELSE m.home,
                       !.awayTeam = IF m.away = NoTeam THEN @ ELSE m.away,
                       !.updatedAt = t]]

\* the loop of fetchAndStoreUpcomingMatches over the parsed fixtures
RECURSIVE GoalserveStore(_, _, _)
GoalserveStore(ms, payload, t) ==
  IF payload = <<>> THEN ms
  ELSE GoalserveStore(GoalserveUpsert(ms, Head(payload), t), Tail(payload), t)

\* "count newly created (heuristic using createdAt)": the fixtures of the
\* payload whose document was created within the last 5 seconds
GoalserveCount(ms, payload, t) ==
  Cardinality({k \in 1..Len(payload) :
     \E i \in 1..Len(ms) : ms[i].static_id = payload[k].static_id
                           /\ ms[i].createdAt = t})

\* fetchAndStoreUpcomingMatches (Goalserve only): safeGet throws after its
\* retries, or the feed is parsed and every fixture upserted
GoalserveRun(http, payload) ==
  /\ version = "cronService"
  /\ IF http = "fail"
     THEN /\ ret' = Ret("goalserve", 0, TRUE)
          /\ UNCHANGED matches
     ELSE /\ matches' = GoalserveStore(matches, payload, now)
          /\ Len(matches') <= MaxMatches
          /\ ret' = Ret("goalserve", GoalserveCount(matches', payload, now), FALSE)
  /\ UNCHANGED <<now, predictions, version, aiVars, orchVars, genVars, auxVars>>

\* An item of the history feed: the match, its final score (0 when the feed
\* gives none) and the predictions array it may carry
HistoryItem(sid, date, hg, ag, home, away, preds) ==
  [static_id |-> sid, date |-> date, homeGoals |-> hg, awayGoals |-> ag,
   home |-> home, away |-> away, predictions |-> preds]

ImportMatch(ms, m, t) ==
  LET i == FirstIdx(ms, LAMBDA r : r.static_id = m.static_id)
  IN IF i = 0
     THEN Append(ms, MatchDoc("goalserve", <<>>, m.static_id, "finished", m.date,
                              m.homeGoals, m.awayGoals, m.home, m.away, t))
     ELSE [ms EXCEPT ![i] =
             [@ EXCEPT !.status = "finished",
                       !.matchDateUtc = IF m.date = Null THEN @ ELSE m.date,
                       !.homeGoals = m.homeGoals,
                       !.awayGoals = m.awayGoals,
                       !.homeTeam = IF m.home = NoTeam THEN @ ELSE m.home,
                       !.awayTeam = IF m.away = NoTeam THEN @ ELSE m.away,
                       !.updatedAt = t]]

\* the predictions of one history item, upserted as they come:
\* confidence: p.confidence ?? 0, status: 'finished'
RECURSIVE ImportPredictions(_, _, _)
ImportPredictions(ps, mid, preds) ==
  IF preds = <<>> THEN ps
  ELSE ImportPredictions(
         UpsertPrediction(ps, PredictionDoc(mid, Head(preds).bucket, Head(preds).oneXTwo,
                                            Head(preds).confidence, "finished")),
         mid, Tail(preds))

\* the loop of importHistoryFromUrl: <<matches, predictions>> after the items
RECURSIVE ImportStore(_, _, _, _)
ImportStore(ms, ps, items, t) ==
  IF items = <<>> THEN <<ms, ps>>
  ELSE LET m == Head(items)
           ms2 == ImportMatch(ms, m, t)
           mid == FirstIdx(ms2, LAMBDA r : r.static_id = m.static_id)
       IN ImportStore(ms2, ImportPredictions(ps, mid, m.predictions), Tail(items), t)

\* importHistoryFromUrl: safeGet is not inside a try, so its failure is raised
ImportHistoryRun(http, items) ==
  /\ version = "cronService"
  /\ IF http = "fail"
     THEN /\ ret' = Ret("import-raised", 0, TRUE)
          /\ UNCHANGED <<matches, predictions>>
     ELSE LET st == ImportStore(matches, predictions, items, now)
          IN /\ matches' = st[1]
             /\ predictions' = st[2]
             /\ Len(matches') <= MaxMatches
             /\ Len(predictions') <= MaxPredictions
             /\ ret' = Ret("import", Len(items), FALSE)
  /\ UNCHANGED <<now, version, aiVars, orchVars, genVars, auxVars>>

\* ------------------------------------------- generateAllPredictions
UpcomingLimit == 50

\* Match.find({status in [...], matchDateUtc in [now, now + 24h]}).limit(50):
\* the _ids, in natural order
Upcoming(ms, t) ==
  LET all == FilterSeq([i \in 1..Len(ms) |-> i],
                       LAMBDA i : /\ ms[i].status \in GeneratorStatuses
                                  /\ ms[i].matchDateUtc # Null
                                  /\ ms[i].matchDateUtc >= t
                                  /\ ms[i].matchDateUtc <= t + Window)
  IN SubSeq(all, 1, Min(Len(all), UpcomingLimit))

\* the inner loop: every prediction the generator returned is upserted
RECURSIVE StorePredictions(_, _, _)
StorePredictions(ps, mid, list) ==
  IF list = <<>> THEN ps
  ELSE StorePredictions(
         UpsertPrediction(ps, PredictionDoc(mid, Head(list).bucket, Head(list).oneXTwo,
                                            Head(list).confidence, "pending")),
         mid, Tail(list))

\* One iteration of the loop over the upcoming matches, on the generator's
\* answer for this match: <<predictions, processedCount, failures logged>>
\* after it.  A match without both teams is passed over; a throw of the
\* generator is caught and logged.
GenerateForMatch(ms, ps, n, failed, mid, ai) ==
  IF ms[mid].homeTeam = NoTeam \/ ms[mid].awayTeam = NoTeam THEN <<ps, n, failed>>
  ELSE IF ~ai.ok THEN <<ps, n, failed \cup {mid}>>
  ELSE <<StorePredictions(ps, mid, ai.list), n + Len(ai.list), failed>>

\* a loop that the first throw of the generator ends
RECURSIVE GenerateLoopAbort(_, _, _, _, _, _)
GenerateLoopAbort(ms, ps, n, failed, queue, ais) ==
  IF queue = <<>> THEN <<ps, n, failed>>
  ELSE LET r == GenerateForMatch(ms, ps, n, failed, Head(queue), Head(ais))
       IN IF r[3] # failed THEN r
          ELSE GenerateLoopAbort(ms, r[1], r[2], r[3], Tail(queue), Tail(ais))

\* the loop over the upcoming matches; ais[k] is the generator's answer for
\* the k-th of them
RECURSIVE GenerateLoop(_, _, _, _, _, _)
GenerateLoop(ms, ps, n, failed, queue, ais) ==
  IF queue = <<>> THEN <<ps, n, failed>>
  ELSE LET r == GenerateForMatch(ms, ps, n, failed, Head(queue), Head(ais))
       IN GenerateLoop(ms, r[1], r[2], r[3], Tail(queue), Tail(ais))

\* generateAllPredictions as one run; scripts[k] is what the oracle answers,
\* call after call, while the generator works on the k-th upcoming match
GenerateRun(scripts) ==
  /\ version \in {"cronService", "part_004"}
  /\ genAI
  /\ Len(scripts) = Len(Upcoming(matches, now))
  /\ LET r == GenerateLoop(matches, predictions, 0, {}, Upcoming(matches, now),
                           [k \in DOMAIN scripts |-> getPredictionsFromAI(scripts[k])])
     IN /\ predictions' = r[1]
        /\ Len(predictions') <= MaxPredictions
        /\ ret' = Ret("generate", r[2], FALSE)
        /\ genFailed' = r[3]
  /\ UNCHANGED <<now, matches, version, aiVars, orchVars, auxVars>>

\* generateAllPredictions without GEMINI_API_KEY: getPredictionsFromAI throws
\* "No GEMINI_API_KEY configured" for every upcoming match, inside the try of
\* the loop body
GenerateRunNoKey ==
  /\ version \in {"cronService", "part_004"}
  /\ ~genAI
  /\ LET queue == Upcoming(matches, now)
         r == GenerateLoop(matches, predictions, 0, {}, queue,
                           [k \in 1..Len(queue) |-> [ok |-> FALSE, list |-> <<>>]])
     IN /\ predictions' = r[1]
        /\ ret' = Ret("generate", r[2], FALSE)
        /\ genFailed' = r[3]
  /\ UNCHANGED <<now, matches, version, aiVars, orchVars, auxVars>>

\* ------------------------------------------ part_004 (cronService.js)
\* An OpenLigaDB match: lastUpdate is tryParseDate(lastUpdateDateTimeUTC,
\* matchDateTimeUTC), goals the 'Endergebnis' entry of matchResults
OlFixture(id, date, lastUpdate, finished, hg, ag) ==
  [matchID |-> id, date |-> date, lastUpdate |-> lastUpdate, finished |-> finished,
   homeGoals |-> hg, awayGoals |-> ag]

OrNow(d, t) == IF d = Null THEN t ELSE d

\* one iteration of fetchFromOpenLigaDB's loop: an existing match takes the
\* feed's status and goals when the feed's lastUpdate is newer than its
\* updatedAt, a new one is created; <<matches, new, updated>>
OpenLigaItem(ms, md, t) ==
  LET i == FirstIdx(ms, LAMBDA r : r.externalId = <<"openliga", md.matchID>>)
      lastUpdate == OrNow(md.lastUpdate, t)
      st == IF md.finished THEN "finished" ELSE "scheduled"
  IN IF i # 0
     THEN IF lastUpdate > ms[i].updatedAt
          THEN <<[ms EXCEPT ![i] = [@ EXCEPT !.status = st,
                                             !.homeGoals = md.homeGoals,
                                             !.awayGoals = md.awayGoals,
                                             !.updatedAt = lastUpdate]], 0, 1>>
          ELSE <<ms, 0, 0>>
     ELSE <<Append(ms, [MatchDoc("openligadb", <<"openliga", md.matchID>>, Null, st,
                                 OrNow(md.date, t), md.homeGoals, md.awayGoals,
                                 "A", "B", t) EXCEPT !.updatedAt = lastUpdate]), 1, 0>>

RECURSIVE OpenLigaLoop(_, _, _, _, _)
OpenLigaLoop(ms, items, t, new, upd) ==
  IF items = <<>> THEN <<ms, new, upd>>
  ELSE LET r == OpenLigaItem(ms, Head(items), t)
       IN OpenLigaLoop(r[1], Tail(items), t, new + r[2], upd + r[3])

\* one iteration of fetchFromSoccersAPI's loop: an existing match is left
\* alone, a new one is created 'scheduled'
SoccersItem004(ms, md, t) ==
  IF FirstIdx(ms, LAMBDA r : r.externalId = <<"soccersapi", md.id>>) # 0
  THEN <<ms, 0>>
  ELSE <<Append(ms, MatchDoc("soccersapi", <<"soccersapi", md.id>>, Null, "scheduled",
                             OrNow(md.date, t), Null, Null, "A", "B", t)), 1>>

RECURSIVE SoccersLoop004(_, _, _, _)
SoccersLoop004(ms, items, t, new) ==
  IF items = <<>> THEN <<ms, new>>
  ELSE LET r == SoccersItem004(ms, Head(items), t)
       IN SoccersLoop004(r[1], Tail(items), t, new + r[2])

\* fetchAndStoreMatches: SoccersAPI first; OpenLigaDB only when SoccersAPI
\* throws (no credentials, or the GET fails).  fallback.items are the matches
\* of the leagues fetched before a GET threw (fallback.throws) or the loop
\* ended; a throw of the fallback is logged and its counts are lost.
\* FOOTBALL_JSON_URL is not set.
FetchAndStoreMatches(primary, fallback) ==
  /\ version = "part_004"
  /\ IF primary.ok
     THEN LET r == SoccersLoop004(matches, primary.items, now, 0)
          IN /\ matches' = r[1]
             /\ ret' = Ret("fetch-matches", r[2], FALSE)
     ELSE LET r == OpenLigaLoop(matches, fallback.items, now, 0, 0)
          IN /\ matches' = r[1]
             /\ ret' = Ret("fetch-matches", IF fallback.throws THEN 0 ELSE r[2], FALSE)
  /\ Len(matches') <= MaxMatches
  /\ UNCHANGED <<now, predictions, version, aiVars, orchVars, genVars, auxVars>>

\* ----------------------------------------------------- Result Grader
ActualWinner(hg, ag) ==
  IF hg > ag THEN "home" ELSE IF hg < ag THEN "away" ELSE "draw"

\* the predicted winner as evaluatePredictionsForMatch derives it: home
\* against away, the draw probability is not read; a missing triple compares
\* undefined with undefined
PredictedWinner(x) ==
  IF Len(x) # 3 THEN "draw"
  ELSE IF x[1] > x[3] THEN "home" ELSE IF x[1] < x[3] THEN "away" ELSE "draw"

NewStatus(x, hg, ag) ==
  IF PredictedWinner(x) = ActualWinner(hg, ag) THEN "won" ELSE "lost"

\* evaluatePredictionsForMatch: every prediction of the match gets the status
\* the comparison gives, whatever status it has
evaluatePredictionsForMatch(ps, mid, m) ==
  [i \in 1..Len(ps) |->
     IF ps[i].matchId = mid /\ m.status = "finished"
     THEN [ps[i] EXCEPT !.status = NewStatus(ps[i].oneXTwo, m.homeGoals, m.awayGoals)]
     ELSE ps[i]]

\* What the result endpoint answers for a match: the GET fails, or the match
\* is (not) finished, with the goals of its 'Endergebnis' (Null without one)
ResultOf(ok, finished, hg, ag) ==
  [ok |-> ok, finished |-> finished, homeGoals |-> hg, awayGoals |-> ag]

\* one iteration of fetchAndStoreResults' loop; <<matches, predictions, n>>
ResultItem(ms, ps, n, mid, res, t) ==
  IF /\ ms[mid].source = "openligadb" /\ ms[mid].externalId # <<>>
     /\ res.ok /\ res.finished
     /\ res.homeGoals # Null /\ res.awayGoals # Null
  THEN LET ms2 == [ms EXCEPT ![mid] = [@ EXCEPT !.status = "finished",
                                                !.homeGoals = res.homeGoals,
                                                !.awayGoals = res.awayGoals,
                                                !.updatedAt = t]]
       IN <<ms2, evaluatePredictionsForMatch(ps, mid, ms2[mid]), n + 1>>
  ELSE <<ms, ps, n>>

RECURSIVE ResultLoop(_, _, _, _, _, _)
ResultLoop(ms, ps, n, queue, results, t) ==
  IF queue = <<>> THEN <<ms, ps, n>>
  ELSE LET r == ResultItem(ms, ps, n, Head(queue), Head(results), t)
       IN ResultLoop(r[1], r[2], r[3], Tail(queue), Tail(results), t)

\* Match.find({status: 'scheduled', matchDateUtc: {$lt: now}})
MatchesToCheck(ms, t) ==
  FilterSeq([i \in 1..Len(ms) |-> i],
            LAMBDA i : /\ ms[i].status = "scheduled"
                       /\ ms[i].matchDateUtc # Null
                       /\ ms[i].matchDateUtc < t)

\* fetchAndStoreResults; results[k] is what the endpoint answers for the
\* k-th match to check
FetchAndStoreResults(results) ==
  /\ version = "part_004"
  /\ Len(results) = Len(MatchesToCheck(matches, now))
  /\ LET r == ResultLoop(matches, predictions, 0, MatchesToCheck(matches, now), results, now)
     IN /\ matches' = r[1]
        /\ predictions' = r[2]
        /\ ret' = Ret("fetch-results", r[3], FALSE)
  /\ UNCHANGED <<now, version, aiVars, orchVars, genVars, auxVars>>

Tick ==
  /\ now < MaxTime
  /\ now' = now + 1
  /\ UNCHANGED <<matches, predictions, ret, version, aiVars, orchVars, genVars, auxVars>>

\* ------------------------------------------ part_014 (cronService.js)
withinNext24Hours(date, t) == date # Null /\ date >= t /\ date <= t + Window

\* A SoccersAPI or OpenLigaDB item as the loops read it: id is 0 when the
\* item has none, date is what tryParseDate makes of its date fields
FeedItem(id, date, finished, home, away) ==
  [id |-> id, date |-> date, finished |-> finished, home |-> home, away |-> away]

ItemStatus(md) == IF md.finished THEN "finished" ELSE "scheduled"

\* the checks an item passes before the store is read
ItemAccepted(md, t) ==
  /\ md.id # 0 /\ md.home # NoTeam /\ md.away # NoTeam
  /\ withinNext24Hours(md.date, t)

\* existing.save(): updatedAt moves when a path was modified
Saved(old, new, t) == IF new = old THEN old ELSE [new EXCEPT !.updatedAt = t]

\* one iteration of fetchUpcomingFromSoccersAPI's loop: findOne by externalId,
\* then update (the status it has is kept) or create; <<matches, new>>
SoccersItem014(ms, md, t) ==
  IF ~ItemAccepted(md, t) THEN <<ms, 0>>
  ELSE LET i == FirstIdx(ms, LAMBDA r : r.externalId = <<"soccersapi", md.id>>)
       IN IF i # 0
          THEN <<[ms EXCEPT ![i] =
                    Saved(@, [@ EXCEPT !.matchDateUtc = md.date,
                                       !.homeTeam = IF @ = NoTeam THEN md.home ELSE @,
                                       !.awayTeam = IF @ = NoTeam THEN md.away ELSE @,
                                       !.source = "soccersapi"], t)], 0>>
          ELSE <<Append(ms, MatchDoc("soccersapi", <<"soccersapi", md.id>>, Null,
                                     ItemStatus(md), md.date, Null, Null,
                                     md.home, md.away, t)), 1>>

RECURSIVE SoccersLoop014(_, _, _, _)
SoccersLoop014(ms, items, t, new) ==
  IF items = <<>> THEN <<ms, new>>
  ELSE LET r == SoccersItem014(ms, Head(items), t)
       IN SoccersLoop014(r[1], Tail(items), t, new + r[2])

\* one iteration of fetchUpcomingFromOpenLigaDB's loop: an existing match
\* takes the status of the feed
OpenLigaItem014(ms, md, t) ==
  IF ~ItemAccepted(md, t) THEN <<ms, 0>>
  ELSE LET i == FirstIdx(ms, LAMBDA r : r.externalId = <<"openliga", md.id>>)
       IN IF i # 0
          THEN <<[ms EXCEPT ![i] =
                    Saved(@, [@ EXCEPT !.matchDateUtc = md.date,
                                       !.homeTeam = IF @ = NoTeam THEN md.home ELSE @,
                                       !.awayTeam = IF @ = NoTeam THEN md.away ELSE @,
                                       !.status = ItemStatus(md)], t)], 0>>
          ELSE <<Append(ms, MatchDoc("openligadb", <<"openliga", md.id>>, Null,
                                     ItemStatus(md), md.date, Null, Null,
                                     md.home, md.away, t)), 1>>

RECURSIVE OpenLigaLoop014(_, _, _, _)
OpenLigaLoop014(ms, items, t, new) ==
  IF items = <<>> THEN <<ms, new>>
  ELSE LET r == OpenLigaItem014(ms, Head(items), t)
       IN OpenLigaLoop014(r[1], Tail(items), t, new + r[2])

\* What one GET gives after safeGet's retries: a list of items, or a throw
GetOk(items) == [ok |-> TRUE, items |-> items]
GetFails == [ok |-> FALSE, items |-> <<>>]

\* fetchUpcomingFromSoccersAPI: without credentials it returns a count of 0;
\* it fetches today's and tomorrow's schedule, and a GET that fails makes it
\* throw, after the items of the day before it are stored
fetchUpcomingFromSoccersAPI(ms, cred, today, tomorrow, t) ==
  IF ~cred THEN [threw |-> FALSE, ms |-> ms, new |-> 0, items |-> 0]
  ELSE IF ~today.ok THEN [threw |-> TRUE, ms |-> ms, new |-> 0, items |-> 0]
  ELSE LET r1 == SoccersLoop014(ms, today.items, t, 0)
       IN IF ~tomorrow.ok
          THEN [threw |-> TRUE, ms |-> r1[1], new |-> r1[2], items |-> Len(today.items)]
          ELSE LET r2 == SoccersLoop014(r1[1], tomorrow.items, t, r1[2])
               IN [threw |-> FALSE, ms |-> r2[1], new |-> r2[2],
                   items |-> Len(today.items) + Len(tomorrow.items)]

\* fetchUpcomingFromOpenLigaDB: the leagues bl1 and bl2, each in its own try,
\* so a league whose GET fails is passed over and the function never throws
fetchUpcomingFromOpenLigaDB(ms, bl1, bl2, t) ==
  LET r1 == OpenLigaLoop014(ms, bl1.items, t, 0)
      r2 == OpenLigaLoop014(r1[1], bl2.items, t, r1[2])
  IN [ms |-> r2[1], new |-> r2[2], items |-> Len(bl1.items) + Len(bl2.items)]

\* fetchAndStoreUpcomingMatches: the fallback runs in the catch of the
\* primary, and totalNew then holds the fallback's count only
FetchUpcoming014(cred, today, tomorrow, bl1, bl2) ==
  /\ version = "part_014"
  /\ LET p == fetchUpcomingFromSoccersAPI(matches, cred, today, tomorrow, now)
     IN IF p.threw
        THEN LET fb == fetchUpcomingFromOpenLigaDB(p.ms, bl1, bl2, now)
             IN /\ matches' = fb.ms
                /\ ret' = Ret("fetch-upcoming", fb.new, FALSE)
                /\ orchPrimary' = [outcome |-> "threw", items |-> p.items]
                /\ orchFallback' = [outcome |-> "returned", items |-> fb.items]
        ELSE /\ matches' = p.ms
             /\ ret' = Ret("fetch-upcoming", p.new, FALSE)
             /\ orchPrimary' = [outcome |-> "returned", items |-> p.items]
             /\ orchFallback' = NotRun
  /\ Len(matches') <= MaxMatches
  /\ UNCHANGED <<now, predictions, version, aiVars, genVars, auxVars>>

\* ------------------------------------------ part_011 (cronService.js)
\* one iteration of the loop of fetchUpcomingFromSportmonks or
\* fetchUpcomingFromGoalserve (src): both teams and a date inside the next
\* 24 hours are required, then findOne by externalId, and an update or a
\* create with status 'scheduled'; <<matches, new>>
Item011(ms, src, md, t) ==
  IF md.home = NoTeam \/ md.away = NoTeam \/ ~withinNext24Hours(md.date, t)
  THEN <<ms, 0>>
  ELSE LET i == FirstIdx(ms, LAMBDA r : r.externalId = <<src, md.id>>)
       IN IF i # 0
          THEN <<[ms EXCEPT ![i] =
                    Saved(@, [@ EXCEPT !.matchDateUtc = md.date,
                                       !.homeTeam = IF @ = NoTeam THEN md.home ELSE @,
                                       !.awayTeam = IF @ = NoTeam THEN md.away ELSE @,
                                       !.source = src], t)], 0>>
          ELSE <<Append(ms, MatchDoc(src, <<src, md.id>>, Null, "scheduled", md.date,
                                     Null, Null, md.home, md.away, t)), 1>>

RECURSIVE Loop011(_, _, _, _, _)
Loop011(ms, src, items, t, new) ==
  IF items = <<>> THEN <<ms, new>>
  ELSE LET r == Item011(ms, src, Head(items), t)
       IN Loop011(r[1], src, Tail(items), t, new + r[2])

\* one provider inside its try of fetchAndStoreUpcomingMatches: without a
\* token the fetcher returns a count of 0, a GET that fails after safeGet's
\* retries throws and is logged by the catch
Fetch011(ms, src, token, get, t) ==
  IF ~token THEN [outcome |-> "unconfigured", ms |-> ms, new |-> 0, items |-> 0]
  ELSE IF ~get.ok THEN [outcome |-> "threw", ms |-> ms, new |-> 0, items |-> 0]
  ELSE LET r == Loop011(ms, src, get.items, t, 0)
       IN [outcome |-> "returned", ms |-> r[1], new |-> r[2], items |-> Len(get.items)]

\* fetchAndStoreUpcomingMatches of part_011: Sportmonks, then Goalserve, each
\* in its own try; the sum of the counts is returned
FetchUpcoming011(smToken, sm, gsToken, gs) ==
  /\ version = "part_011"
  /\ LET a == Fetch011(matches, "sportmonks", smToken, sm, now)
         b == Fetch011(a.ms, "goalserve", gsToken, gs, now)
     IN /\ matches' = b.ms
        /\ ret' = Ret("fetch-upcoming", a.new + b.new, FALSE)
        /\ orchPrimary' = [outcome |-> a.outcome, items |-> a.items]
        /\ orchFallback' = [outcome |-> b.outcome, items |-> b.items]
  /\ Len(matches') <= MaxMatches
  /\ UNCHANGED <<now, predictions, version, aiVars, genVars, auxVars>>

\* ------------------------------------------ part_009 (cronService.js)
\* Match.findOneAndUpdate({ static_id }, {...}, { upsert: true, new: true })
\* of part_009: every field of the update is written, no source is set
Upsert9(ms, m, t) ==
  LET i == FirstIdx(ms, LAMBDA r : r.static_id = m.static_id)
  IN IF i = 0
     THEN Append(ms, MatchDoc("unset", <<>>, m.static_id, m.status, m.date,
                              Null, Null, m.home, m.away, t))
     ELSE [ms EXCEPT ![i] = [@ EXCEPT !.status = m.status,
                                      !.matchDateUtc = m.date,
                                      !.homeTeam = m.home,
                                      !.awayTeam = m.away,
                                      !.updatedAt = t]]

\* the loop of part_009's fetchAndStoreUpcomingMatches, which has no try of
\* its own: a fixture whose date string gives an Invalid Date makes the
\* update throw a cast error, and the throw leaves the loop
RECURSIVE Store9(_, _, _)
Store9(ms, payload, t) ==
  IF payload = <<>> THEN [ms |-> ms, threw |-> FALSE]
  ELSE IF Head(payload).date = Null THEN [ms |-> ms, threw |-> TRUE]
  ELSE Store9(Upsert9(ms, Head(payload), t), Tail(payload), t)

\* fetchAndStoreUpcomingMatches of part_009: one axios.get, the loop, and a
\* catch around both that returns { newMatchesCount: 0, error }; the count
\* stays 0 because findOneAndUpdate with new: true never returns null
GoalserveRun9(http, payload) ==
  /\ version = "part_009"
  /\ IF http = "fail" \/ payload = <<>>
     THEN /\ ret' = Ret("goalserve", 0, http = "fail")
          /\ UNCHANGED matches
     ELSE LET r == Store9(matches, payload, now)
          IN /\ matches' = r.ms
             /\ Len(matches') <= MaxMatches
             /\ ret' = Ret("goalserve", 0, r.threw)
  /\ UNCHANGED <<now, predictions, version, aiVars, orchVars, genVars, auxVars>>

\* ------------------------------------------ part_008 (cronService.js)
\* A match of the Goalserve feed as parseGoalserveMatches reads it: id and
\* static_id are Null when the raw match has none, date and the names are the
\* raw strings
Gs8Fixture(id, sid, date, home, away, st) ==
  [id |-> id, static_id |-> sid, date |-> date, home |-> home, away |-> away,
   status |-> st]

\* extractIdsFromRawMatch: the first candidate that is there, as a string
\* (the id before the static_id), and the number it reads as
extractIdsFromRawMatch(m) ==
  LET c == IF m.id # Null THEN m.id ELSE m.static_id
  IN [externalId |-> IF c = Null THEN <<>> ELSE <<"id", c>>,
      staticId |-> IF c # Null THEN c ELSE m.static_id]

\* normalizeString on the names the feeds use: trimmed, blanks to
\* underscores, lower case
normalizeString(x) ==
  CASE x = "Ajax" -> "ajax"
    [] x = " ajax" -> "ajax"
    [] x = "PSV" -> "psv"
    [] OTHER -> x

\* the externalId of the loop: the one extracted, else the generated
\* goalserve_fallback:league:date:home-vs-away (Null in it is "nodate")
ExternalId8(m) ==
  IF extractIdsFromRawMatch(m).externalId # <<>>
  THEN extractIdsFromRawMatch(m).externalId
  ELSE <<"goalserve_fallback",
         m.date,
         normalizeString(IF m.home = NoTeam THEN "home" ELSE m.home),
         normalizeString(IF m.away = NoTeam THEN "away" ELSE m.away)>>

\* Match.findOneAndUpdate({source: "goalserve", externalId}, {$set: setObj,
\* $setOnInsert: ...}, {upsert: true, rawResult: true}); <<matches, upserted>>
GoalserveUpsert8(ms, m, t) ==
  LET xid == ExternalId8(m)
      sid == extractIdsFromRawMatch(m).staticId
      i == FirstIdx(ms, LAMBDA r : r.source = "goalserve" /\ r.externalId = xid)
  IN IF i = 0
     THEN <<Append(ms, MatchDoc("goalserve", xid, sid, m.status, m.date, Null, Null,
                                m.home, m.away, t)), 1>>
     ELSE <<[ms EXCEPT ![i] =
               [@ EXCEPT !.static_id = IF sid = Null THEN @ ELSE sid,
                         !.status = m.status,
                         !.matchDateUtc = IF m.date = Null THEN @ ELSE m.date,
                         !.homeTeam = IF m.home = NoTeam THEN @ ELSE m.home,
                         !.awayTeam = IF m.away = NoTeam THEN @ ELSE m.away,
                         !.updatedAt = t]], 0>>

RECURSIVE GoalserveStore8(_, _, _, _)
GoalserveStore8(ms, payload, t, new) ==
  IF payload = <<>> THEN <<ms, new>>
  ELSE LET r == GoalserveUpsert8(ms, Head(payload), t)
       IN GoalserveStore8(r[1], Tail(payload), t, new + r[2])

\* fetchAndStoreUpcomingMatches of part_008: fetchJSON gives null when the
\* GET fails, and the run returns a count of 0
GoalserveRun8(http, payload) ==
  /\ version = "part_008"
  /\ IF http = "fail"
     THEN /\ ret' = Ret("goalserve", 0, FALSE)
          /\ UNCHANGED matches
     ELSE LET r == GoalserveStore8(matches, payload, now, 0)
          IN /\ matches' = r[1]
             /\ Len(matches') <= MaxMatches
             /\ ret' = Ret("goalserve", r[2], FALSE)
  /\ UNCHANGED <<now, predictions, version, aiVars, orchVars, genVars, auxVars>>

\* ------------------------------------------------- the oracle, called
\* callGenerativeAI on an oracle that answers aiScript
CallOracle ==
  /\ aiResult = NoResult
  /\ aiResult' = callGenerativeAI(aiScript)
  /\ ret' = Ret("call-ai", aiResult'.calls, ~aiResult'.ok)
  /\ UNCHANGED <<now, matches, predictions, version, aiScript, orchVars, genVars, auxVars>>

\* --------------------------------- getPredictionsFromAI, by generation
\* callGenerativeAI of part_016: the same loops with its own maxRetries
RECURSIVE CallFrom016(_, _, _, _)
CallFrom016(script, model, attempt, k) ==
  IF model > NumModels
  THEN [ok |-> FALSE, list |-> <<>>, model |-> 0, calls |-> k]
  ELSE LET a == ParseAttempt(Resp(script, k + 1))
       IN IF a.ok THEN [ok |-> TRUE, list |-> a.list, model |-> model, calls |-> k + 1]
          ELSE IF attempt = maxRetries016
               THEN CallFrom016(script, model + 1, 0, k + 1)
               ELSE CallFrom016(script, model, attempt + 1, k + 1)

\* getPredictionsFromAI of part_016: the validated list filtered by
\* confidence, the numbers as the oracle gave them
getPredictionsFromAI016(script) ==
  LET r == CallFrom016(script, 1, 0, 0)
  IN IF ~r.ok THEN [ok |-> FALSE, list |-> <<>>]
     ELSE [ok |-> TRUE, list |-> FilterSeq(r.list, Confident)]

\* the generator asked for the forecasts of one fixture
GetPredictionsCall ==
  /\ version \in {"cronService", "part_016"}
  /\ ret.op = "none"
  /\ fnValue' = IF version = "part_016" THEN getPredictionsFromAI016(aiScript)
                ELSE getPredictionsFromAI(aiScript)
  /\ ret' = Ret("get-predictions", Len(fnValue'.list), ~fnValue'.ok)
  /\ UNCHANGED <<now, matches, predictions, version, aiVars, orchVars, genVars,
                 parseVars, httpVars, concVars, envVars, fnArgs>>

\* ------------------------------------ the head-to-head of the prompt
\* a History document as generateAllPredictions hands it over: the names of
\* the populated teams and the kickoff
HistoryRec(home, away, date) == [homeTeam |-> home, awayTeam |-> away, matchDateUtc |-> date]

\* h.homeTeam?.name === match.homeTeam?.name && ... || the teams swapped
SamePair(h, m) ==
  \/ h.homeTeam = m.homeTeam /\ h.awayTeam = m.awayTeam
  \/ h.homeTeam = m.awayTeam /\ h.awayTeam = m.homeTeam

\* the records the prompt lists: historicalMatches.filter(...).slice(0,10)
h2hMatches(m, hist) ==
  LET f == FilterSeq(hist, LAMBDA h : SamePair(h, m))
  IN SubSeq(f, 1, Min(h2hCap, Len(f)))

\* getPredictionsFromAI builds the head-to-head part of its prompt
BuildH2H ==
  /\ version = "cronService"
  /\ ret.op = "none"
  /\ fnValue' = h2hMatches(fnArgs.match, fnArgs.history)
  /\ ret' = Ret("h2h", Len(fnValue'), FALSE)
  /\ UNCHANGED <<now, matches, predictions, version, aiVars, orchVars, genVars,
                 parseVars, httpVars, concVars, envVars, fnArgs>>

\* ------------------------------------- calculateWinner (part_021)
\* a ?? b on a number-valued field
Coalesce(a, b) == IF a # Null THEN a ELSE b

\* the score fields of a Match document that calculateWinner reads
ScoreDoc(st, ft, goals, et, pen) ==
  [status |-> st,
   ft_score |-> ft[1], ft_score_away |-> ft[2],
   homeGoals |-> goals[1], awayGoals |-> goals[2],
   et_score |-> et[1], et_score_away |-> et[2],
   pen_score |-> pen[1], pen_score_away |-> pen[2]]

\* a winner that looks at the goal counts only
WinnerByGoals(m) ==
  IF m.status # "finished" THEN "none" ELSE ActualWinner(m.homeGoals, m.awayGoals)

\* calculateWinner: "none" stands for null
calculateWinner(m) ==
  IF m.status # "finished" THEN "none"
  ELSE LET homeScore == Coalesce(m.ft_score, Coalesce(m.homeGoals, 0))
           awayScore == Coalesce(m.ft_score_away, Coalesce(m.awayGoals, 0))
           etHome == Coalesce(m.et_score, 0)
           etAway == Coalesce(m.et_score_away, 0)
           penHome == Coalesce(m.pen_score, 0)
           penAway == Coalesce(m.pen_score_away, 0)
       IN IF homeScore > awayScore THEN "home"
          ELSE IF homeScore < awayScore THEN "away"
          ELSE IF etHome > etAway THEN "home"
          ELSE IF etHome < etAway THEN "away"
          ELSE IF penHome > penAway THEN "home"
          ELSE IF penHome < penAway THEN "away"
          ELSE "draw"

\* applyPredictionStatus of part_021 asks calculateWinner for the match
CalculateWinnerCall ==
  /\ version = "part_021"
  /\ ret.op = "none"
  /\ fnValue' = calculateWinner(fnArgs)
  /\ ret' = Ret("calculate-winner", 0, FALSE)
  /\ UNCHANGED <<now, matches, predictions, version, aiVars, orchVars, genVars,
                 parseVars, httpVars, concVars, envVars, fnArgs>>

\* evaluatePredictionsForMatch of part_004 derives actualWinner from the goals
\* of a finished match
ActualWinnerStep ==
  /\ version = "part_004"
  /\ ret.op = "none"
  /\ fnValue' = WinnerByGoals(fnArgs)
  /\ ret' = Ret("calculate-winner", 0, FALSE)
  /\ UNCHANGED <<now, matches, predictions, version, aiVars, orchVars, genVars,
                 parseVars, httpVars, concVars, envVars, fnArgs>>

\* ------------------------------------ fetchMatches (cronService.js)
\* A match of the feed of fetchMatches: its id (static_id || id || fix_id,
\* Null when the feed has none of them), the date attribute (Null without
\* one) and whether new Date(m.date) reads it, the status and the teams
RawMatch(sid, date, parses, st, home, away) ==
  [static_id |-> sid, date |-> date, parses |-> parses, status |-> st,
   home |-> home, away |-> away]

\* `fallback_${Date.now()}_${Math.random()}`: a key no stored document has
FreshKey(ms) == <<"fallback", Len(ms) + 1>>

\* the body of the loop: Match.findOneAndUpdate({ unique_key }, { $set,
\* $setOnInsert }, { upsert: true }); an Invalid Date in setObj fails the
\* cast and the catch of the loop passes the match over.  <<matches, new>>
UpsertByUniqueKey(ms, m, t) ==
  IF m.date # Null /\ ~m.parses THEN <<ms, 0>>
  ELSE LET key == IF m.static_id # Null THEN <<"key", m.static_id>> ELSE FreshKey(ms)
           i == FirstIdx(ms, LAMBDA r : r.externalId = key)
       IN IF i = 0
          THEN <<Append(ms, MatchDoc("goalserve", key, m.static_id, m.status, m.date,
                                     Null, Null, m.home, m.away, t)), 1>>
          ELSE <<[ms EXCEPT ![i] =
                    [@ EXCEPT !.static_id = m.static_id,
                              !.status = m.status,
                              !.matchDateUtc = m.date,
                              !.homeTeam = m.home,
                              !.awayTeam = m.away,
                              !.updatedAt = t]], 0>>

RECURSIVE FetchMatchesLoop(_, _, _, _)
FetchMatchesLoop(ms, payload, t, new) ==
  IF payload = <<>> THEN <<ms, new>>
  ELSE LET r == UpsertByUniqueKey(ms, Head(payload), t)
       IN FetchMatchesLoop(r[1], Tail(payload), t, new + r[2])

\* fetchMatches: a failed GET is caught and logged; nothing is returned
fetchMatches(http, payload) ==
  /\ version = "cronService"
  /\ IF http = "fail"
     THEN /\ ret' = Ret("fetch-feed", 0, FALSE)
          /\ UNCHANGED matches
     ELSE LET r == FetchMatchesLoop(matches, payload, now, 0)
          IN /\ matches' = r[1]
             /\ Len(matches') <= MaxMatches
             /\ ret' = Ret("fetch-feed", r[2], FALSE)
  /\ UNCHANGED <<now, predictions, version, aiVars, orchVars, genVars, auxVars>>

\* ------------------------------------------------------ the teams
\* A Team document, and a team descriptor of a feed: the provider's id (Null
\* without one), the name as written (NoTeam without one), the logo (NoLogo
\* when the feed has null there)
NoLogo == "none"
TeamDoc(id, name, logo) == [team_id |-> id, name |-> name, logoUrl |-> logo]
TeamDesc(id, name, logo) == [id |-> id, name |-> name, logo |-> logo]

\* String(name).trim() on the names the feeds use
TrimName(x) == IF x = "Ajax " THEN "Ajax" ELSE x

\* Team.findOneAndUpdate of the head and of part_008: the filter is
\* { team_id } when the descriptor has an id, else { name } with the name as
\* written; only the fields the descriptor has are set (part_008 builds the
\* $set from the truthy fields, the head passes "|| undefined", which
\* Mongoose removes from the update); upsert.  team_id is unique in the
\* schema of Team.js, and a document without it is indexed under null: the
\* insert of a second team without an id throws the duplicate key error.
TeamUpsertById(ts, d) ==
  IF d.id = Null /\ d.name = NoTeam THEN [ts |-> ts, threw |-> FALSE]
  ELSE LET i == IF d.id # Null
                THEN FirstIdx(ts, LAMBDA r : r.team_id = d.id)
                ELSE FirstIdx(ts, LAMBDA r : r.name = d.name)
       IN IF i = 0
          THEN IF d.id = Null /\ \E k \in 1..Len(ts) : ts[k].team_id = Null
               THEN [ts |-> ts, threw |-> TRUE]
               ELSE [ts |-> Append(ts, TeamDoc(d.id, d.name, d.logo)), threw |-> FALSE]
          ELSE [ts |-> [ts EXCEPT ![i] =
                          [@ EXCEPT !.name = IF d.name = NoTeam THEN @ ELSE d.name,
                                    !.logoUrl = IF d.logo = NoLogo THEN @ ELSE d.logo]],
                threw |-> FALSE]

\* getOrCreateTeam of part_014: by trimmed name only; the logo is filled in
\* when the team has none
getOrCreateTeam(ts, d) ==
  IF d.name = NoTeam THEN ts
  ELSE LET i == FirstIdx(ts, LAMBDA r : r.name = TrimName(d.name))
       IN IF i = 0 THEN Append(ts, TeamDoc(Null, TrimName(d.name), d.logo))
          ELSE [ts EXCEPT ![i] =
                  [@ EXCEPT !.logoUrl = IF d.logo # NoLogo /\ @ = NoLogo
                                        THEN d.logo ELSE @]]

\* Team.findOneAndUpdate({ name }, { name, logoUrl: m.homeLogo }, { upsert })
\* of part_009: the logo of the feed is written as it is
TeamUpsert9(ts, d) ==
  LET i == FirstIdx(ts, LAMBDA r : r.name = d.name)
  IN IF i = 0 THEN Append(ts, TeamDoc(Null, d.name, d.logo))
     ELSE [ts EXCEPT ![i] = [@ EXCEPT !.logoUrl = d.logo]]

\* the team upsert of a loop body, for one team descriptor of the fixture
ResolveTeam(d) ==
  /\ LET r == CASE version \in {"cronService", "part_008"} -> TeamUpsertById(teams, d)
                [] version = "part_014" -> [ts |-> getOrCreateTeam(teams, d), threw |-> FALSE]
                [] version = "part_009" -> [ts |-> TeamUpsert9(teams, d), threw |-> FALSE]
     IN /\ Len(r.ts) <= MaxTeams
        /\ teams' = r.ts
        /\ ret' = Ret("team", Len(r.ts) - Len(teams), r.threw)
  /\ UNCHANGED <<now, matches, predictions, version, aiVars, orchVars, genVars,
                 parseVars, httpVars, concVars, genAI, history, fnVars>>

\* ------------------------------------------- two ingestion runs at once
\* A run inside the loop body of fetchUpcomingFromSoccersAPI (part_014) or of
\* the head's fetchAndStoreUpcomingMatches: the item it is at, whether its
\* findOne has answered ("found") or its write is done ("done"), and the
\* document findOne gave it (<<>> for null, else <<index, document>>)
Run(md, pc, existing) == [item |-> md, pc |-> pc, existing |-> existing]
RunIds == {1, 2}
NoRuns == [p \in RunIds |-> Run(FeedItem(0, Null, FALSE, NoTeam, NoTeam), "idle", <<>>)]

\* Match.findOne({ externalId }) of part_014
ConcFindOne(ms, md) ==
  LET i == FirstIdx(ms, LAMBDA r : r.externalId = <<"soccersapi", md.id>>)
  IN IF i = 0 THEN <<>> ELSE <<i, ms[i]>>

\* existing.save(): the paths the run modified on the document it read are
\* written to the stored document of that _id
ConcSave(ms, existing, md, t) ==
  LET i == existing[1]
      old == existing[2]
      new == [old EXCEPT !.matchDateUtc = md.date,
                         !.homeTeam = IF @ = NoTeam THEN md.home ELSE @,
                         !.awayTeam = IF @ = NoTeam THEN md.away ELSE @,
                         !.source = "soccersapi"]
  IN IF new = old THEN ms
     ELSE [ms EXCEPT ![i] =
             [@ EXCEPT !.matchDateUtc = IF new.matchDateUtc # old.matchDateUtc
                                        THEN new.matchDateUtc ELSE @,
                       !.homeTeam = IF new.homeTeam # old.homeTeam
                                    THEN new.homeTeam ELSE @,
                       !.awayTeam = IF new.awayTeam # old.awayTeam
                                    THEN new.awayTeam ELSE @,
                       !.source = IF new.source # old.source THEN new.source ELSE @,
                       !.updatedAt = t]]

\* Match.create({...}) of part_014's fetchUpcomingFromSoccersAPI
ConcCreate(ms, md, t) ==
  Append(ms, MatchDoc("soccersapi", <<"soccersapi", md.id>>, Null,
                      ItemStatus(md), md.date, Null, Null, md.home, md.away, t))

\* run p of part_014 awaits Match.findOne
ConcFind(p) ==
  /\ version = "part_014"
  /\ runs[p].pc = "start"
  /\ runs' = [runs EXCEPT ![p] = Run(@.item, "found", ConcFindOne(matches, @.item))]
  /\ UNCHANGED <<now, matches, predictions, ret, version, aiVars, orchVars, genVars, envVars, fnVars,
                 parseVars, httpVars>>

\* run p of part_014 awaits existing.save() or Match.create
ConcWrite(p) ==
  /\ version = "part_014"
  /\ runs[p].pc = "found"
  /\ matches' = IF runs[p].existing = <<>>
                THEN ConcCreate(matches, runs[p].item, now)
                ELSE ConcSave(matches, runs[p].existing, runs[p].item, now)
  /\ runs' = [runs EXCEPT ![p] = Run(@.item, "done", @.existing)]
  /\ UNCHANGED <<now, predictions, ret, version, aiVars, orchVars, genVars, envVars, fnVars,
                 parseVars, httpVars>>

\* run p of the head awaits Match.findOneAndUpdate({static_id}, matchDoc,
\* {upsert: true}): one operation of the Store on a uniquely indexed key
ConcUpsert(p) ==
  /\ version = "cronService"
  /\ runs[p].pc = "start"
  /\ matches' = GoalserveUpsert(matches,
                                GsFixture(runs[p].item.id, runs[p].item.date,
                                          ItemStatus(runs[p].item),
                                          runs[p].item.home, runs[p].item.away), now)
  /\ runs' = [runs EXCEPT ![p] = Run(@.item, "done", <<>>)]
  /\ UNCHANGED <<now, predictions, ret, version, aiVars, orchVars, genVars, envVars, fnVars,
                 parseVars, httpVars>>

\* -------------------------------- importHistoryFromUrl (part_014)
\* An item of the history payload: its id (Null without one), the date
\* tryParseDate reads (Null when the item has none or it does not parse),
\* the names of the teams and the final score (Null without one)
HistItem(id, date, home, away, hg, ag) ==
  [id |-> id, date |-> date, home |-> home, away |-> away,
   homeGoals |-> hg, awayGoals |-> ag]

\* A History document; homeTeam and awayTeam are the _ids of Team documents
HistoryDoc(xid, date, h, a, hg, ag) ==
  [externalId |-> xid, matchDateUtc |-> date, status |-> "finished",
   homeTeam |-> h, awayTeam |-> a, homeGoals |-> hg, awayGoals |-> ag]

\* String(name).replace(/\s+/g, '_') on the names the feeds use
Underscored(x) == IF x = "Ajax " THEN "Ajax_" ELSE x

\* `history-${md.id}`, or history-<date>-<home>-<away> for an item without id
HistoryExternalId(md) ==
  IF md.id # Null THEN <<"history", md.id>>
  ELSE <<"history-key", md.date, Underscored(md.home), Underscored(md.away)>>

\* a lookup by the externalId alone
HistoryFindById(hs, xid, h, a, date) ==
  FirstIdx(hs, LAMBDA r : r.externalId = xid)

\* History.findOne({ externalId }), and when that gives null
\* History.findOne({ homeTeam, awayTeam, matchDateUtc }); 0 for null
HistoryFindExisting(hs, xid, h, a, date) ==
  LET i == FirstIdx(hs, LAMBDA r : r.externalId = xid)
  IN IF i # 0 THEN i
     ELSE FirstIdx(hs, LAMBDA r : r.homeTeam = h /\ r.awayTeam = a /\ r.matchDateUtc = date)

\* the _id of the team getOrCreateTeam gives for a name, in the collection
\* it leaves
TeamIdOf(ts, name) == FirstIdx(ts, LAMBDA r : r.name = TrimName(name))

\* the body of the loop for one item: the record is updated, or created; a
\* create that violates a unique index of historySchema throws and the
\* catch of the loop passes the item over
ImportItem014(st, md) ==
  IF md.home = NoTeam \/ md.away = NoTeam \/ md.date = Null THEN st
  ELSE LET ts == getOrCreateTeam(getOrCreateTeam(st.ts, TeamDesc(Null, md.home, NoLogo)),
                                 TeamDesc(Null, md.away, NoLogo))
           h == TeamIdOf(ts, md.home)
           a == TeamIdOf(ts, md.away)
           xid == HistoryExternalId(md)
           i == HistoryFindExisting(st.hs, xid, h, a, md.date)
           scored == md.homeGoals # Null /\ md.awayGoals # Null
       IN IF i # 0
          THEN [st EXCEPT !.ts = ts,
                          !.hs = [@ EXCEPT ![i] =
                                    [@ EXCEPT !.homeGoals = IF scored THEN md.homeGoals ELSE @,
                                              !.awayGoals = IF scored THEN md.awayGoals ELSE @]],
                          !.updated = @ + 1]
          ELSE IF \E k \in 1..Len(st.hs) :
                    \/ st.hs[k].externalId = xid
                    \/ /\ st.hs[k].homeTeam = h /\ st.hs[k].awayTeam = a
                       /\ st.hs[k].matchDateUtc = md.date
          THEN [st EXCEPT !.ts = ts]
          ELSE [st EXCEPT !.ts = ts,
                          !.hs = Append(@, HistoryDoc(xid, md.date, h, a,
                                                      md.homeGoals, md.awayGoals)),
                          !.created = @ + 1]

RECURSIVE ImportLoop014(_, _)
ImportLoop014(st, items) ==
  IF items = <<>> THEN st
  ELSE ImportLoop014(ImportItem014(st, Head(items)), Tail(items))

\* importHistoryFromUrl of part_014: safeGet throws after its retries, or
\* the items are imported; fnArgs keeps the payload, fnValue the `updated`
\* of the result
ImportHistory014(http, payload) ==
  /\ version = "part_014"
  /\ IF http = "fail"
     THEN /\ ret' = Ret("import-history", 0, TRUE)
          /\ UNCHANGED <<teams, history, fnVars>>
     ELSE LET r == ImportLoop014([hs |-> history, ts |-> teams, created |-> 0,
                                  updated |-> 0], payload)
          IN /\ history' = r.hs
             /\ teams' = r.ts
             /\ Len(history') <= MaxHistory /\ Len(teams') <= MaxTeams
             /\ ret' = Ret("import-history", r.created, FALSE)
             /\ fnArgs' = payload
             /\ fnValue' = r.updated
  /\ UNCHANGED <<now, matches, predictions, version, aiVars, orchVars, genVars,
                 parseVars, httpVars, concVars, genAI>>

\* ------------------------------------ two forecast upserts at once
\* Prediction.findOneAndUpdate({ matchId, bucket }, doc, { upsert: true }) of
\* generateAllPredictions and of getUpcomingMatches, as the Store runs it
\* for a key no unique index covers: the query for the document, and then
\* the update of the one found or the insert of a new one; upserts of other
\* runs may come between the two.  runs[p].item is the forecast document.
PredUpsertFind(p) ==
  /\ version = "cronService"
  /\ runs[p].pc = "start"
  /\ LET i == FirstIdx(predictions, LAMBDA r : r.matchId = runs[p].item.matchId
                                               /\ r.bucket = runs[p].item.bucket)
     IN runs' = [runs EXCEPT ![p] = Run(@.item, "found", IF i = 0 THEN <<>> ELSE <<i>>)]
  /\ UNCHANGED <<now, matches, predictions, ret, version, aiVars, orchVars, genVars,
                 envVars, fnVars, parseVars, httpVars>>

PredUpsertWrite(p) ==
  /\ version = "cronService"
  /\ runs[p].pc = "found"
  /\ predictions' = IF runs[p].existing = <<>>
                    THEN Append(predictions, runs[p].item)
                    ELSE [predictions EXCEPT ![runs[p].existing[1]] = runs[p].item]
  /\ runs' = [runs EXCEPT ![p] = Run(@.item, "done", @.existing)]
  /\ UNCHANGED <<now, matches, ret, version, aiVars, orchVars, genVars,
                 envVars, fnVars, parseVars, httpVars>>

\* ------------------------------------------------------------ safeGet
\* What axios.get gives on one attempt: a response with its data, or an
\* error with its message
HttpOk(data) == [ok |-> TRUE, val |-> data]
HttpErr(msg) == [ok |-> FALSE, val |-> msg]
\* what an HTTP call gave its handler, and the number of GETs it made
HttpResult(ok, val, n) == [ok |-> ok, val |-> val, attempts |-> n]
NoHttp == HttpResult(FALSE, "none", 0)

\* safeGet's loop from iteration i (0-based): return on the first response,
\* throw the error of iteration retries - 1, otherwise wait and go on
RECURSIVE SafeGetFrom(_, _, _)
SafeGetFrom(script, retries, i) ==
  IF i >= retries THEN HttpResult(TRUE, "undefined", i)
  ELSE IF script[i + 1].ok THEN HttpResult(TRUE, script[i + 1].val, i + 1)
  ELSE IF i = retries - 1 THEN HttpResult(FALSE, script[i + 1].val, i + 1)
  ELSE SafeGetFrom(script, retries, i + 1)

\* a safeGet that throws the error of its first attempt
SafeGetFirstError(script, retries) ==
  LET r == SafeGetFrom(script, retries, 0)
  IN IF r.ok THEN r ELSE HttpResult(FALSE, script[1].val, r.attempts)

safeGet(script, retries) == SafeGetFrom(script, retries, 0)

\* part_004's fetchFromSoccersAPI: one axios.get, its error thrown as it is
AxiosGet(script) == HttpResult(script[1].ok, script[1].val, 1)

\* safeGet(url, 3) as the head and part_014 call it
SafeGetCall ==
  /\ version \in {"cronService", "part_014"}
  /\ httpResult = NoHttp
  /\ Len(httpScript) >= safeGetRetries
  /\ httpResult' = safeGet(httpScript, safeGetRetries)
  /\ ret' = Ret("http", httpResult'.attempts, ~httpResult'.ok)
  /\ UNCHANGED <<now, matches, predictions, version, aiVars, orchVars, genVars, envVars, fnVars,
                 parseVars, httpScript, concVars>>

\* the schedule request of part_004's fetchFromSoccersAPI
AxiosGetCall ==
  /\ version = "part_004"
  /\ httpResult = NoHttp
  /\ Len(httpScript) >= 1
  /\ httpResult' = AxiosGet(httpScript)
  /\ ret' = Ret("http", httpResult'.attempts, ~httpResult'.ok)
  /\ UNCHANGED <<now, matches, predictions, version, aiVars, orchVars, genVars, envVars, fnVars,
                 parseVars, httpScript, concVars>>

\* --------------------------------------------------------- date parsing
\* A date string of a feed: the separator of its three numbers and the
\* numbers in the order written.  "iso" is yyyy-mm-dd (a = year, c = day),
\* "junk" is a string that holds no date.  A time string is <<hour, minute>>,
\* <<>> when the feed has none.
DateStr(sep, a, b, c) == [sep |-> sep, a |-> a, b |-> b, c |-> c]
NoDateIn == [date |-> DateStr("junk", 0, 0, 0), time |-> <<>>]

\* A Date as <<year, month, day, hour, minute>> in UTC; <<>> is null or an
\* invalid Date
Instant(y, mo, d, hm) == <<y, mo, d, hm[1], hm[2]>>
TimeOr0(timeStr) == IF timeStr = <<>> THEN <<0, 0>> ELSE timeStr
IsMonth(x) == x \in 1..12
IsDay(x) == x \in 1..31

\* new Date(s) on a year-first date with a UTC time: the ISO-8601 form
\* yyyy-mm-ddTHH:MMZ, a date-only yyyy-mm-dd, or "yyyy-mm-dd HH:MM UTC"
YearFirstParse(y, mo, d, hm) ==
  IF IsMonth(mo) /\ IsDay(d) THEN Instant(y, mo, d, hm) ELSE <<>>

\* new Date(s) on a string that is not ISO-8601 and starts with a number
\* below 32: ECMA-262 leaves the parse to the implementation.  An engine
\* rejects the string ("invalid"), or reads the three numbers as month, day,
\* year ("mdy", the legacy parser of V8)
LegacyParse(d, hm, how) ==
  IF d.sep \in {".", "-", "/"} /\ how = "mdy" /\ IsMonth(d.a) /\ IsDay(d.b)
  THEN Instant(d.c, d.a, d.b, hm)
  ELSE <<>>

\* parseGoalserveDate of the head: dd.MM.yyyy by regular expression and
\* Date.UTC, anything else through new Date(`${dateStr}T${timeStr}Z`)
parseGoalserveDate(dateStr, timeStr, how) ==
  IF dateStr.sep = "."
  THEN Instant(dateStr.c, dateStr.b, dateStr.a, TimeOr0(timeStr))
  ELSE IF dateStr.sep = "iso"
       THEN YearFirstParse(dateStr.a, dateStr.b, dateStr.c, TimeOr0(timeStr))
       ELSE LegacyParse(dateStr, TimeOr0(timeStr), how)

\* the date parsing inside part_008's fetchAndStoreUpcomingMatches:
\* new Date(`${m.date} ${m.time || "00:00"} UTC`) first; when that is invalid
\* the date is split on . - / into [day, month, year] and
\* `${year}-${month}-${day} ${time} UTC` is parsed
ParseDate008(dateStr, timeStr, how) ==
  LET hm == TimeOr0(timeStr)
      isoTry == IF dateStr.sep = "iso"
                THEN YearFirstParse(dateStr.a, dateStr.b, dateStr.c, hm)
                ELSE LegacyParse(dateStr, hm, how)
  IN IF isoTry # <<>> THEN isoTry
     ELSE IF dateStr.sep \in {".", "-", "/"}
          THEN YearFirstParse(dateStr.c, dateStr.b, dateStr.a, hm)
          ELSE IF dateStr.sep = "iso"
               THEN LegacyParse(DateStr("-", dateStr.c, dateStr.b, dateStr.a), hm, how)
               ELSE <<>>

\* the head's parser applied to the strings of one feed item
ParseDateHead ==
  /\ version = "cronService"
  /\ ret.op = "none"
  /\ dateOut' = parseGoalserveDate(dateIn.date, dateIn.time, legacy)
  /\ ret' = Ret("parse-date", 0, dateOut' = <<>>)
  /\ UNCHANGED <<now, matches, predictions, version, aiVars, orchVars, genVars, envVars, fnVars,
                 dateIn, legacy, httpVars, concVars>>

\* part_008's parser applied to the strings of one feed item
ParseDateStep008 ==
  /\ version = "part_008"
  /\ ret.op = "none"
  /\ dateOut' = ParseDate008(dateIn.date, dateIn.time, legacy)
  /\ ret' = Ret("parse-date", 0, dateOut' = <<>>)
  /\ UNCHANGED <<now, matches, predictions, version, aiVars, orchVars, genVars, envVars, fnVars,
                 dateIn, legacy, httpVars, concVars>>

\* ------------------------------------------------------------ inputs
IdleProcesses ==
  /\ aiScript = <<>> /\ aiResult = NoResult
  /\ orchPrimary = NotRun /\ orchFallback = NotRun
  /\ genFailed = {}
  /\ dateIn = NoDateIn /\ dateOut = <<>> /\ legacy = "mdy"
  /\ httpScript = <<>> /\ httpResult = NoHttp
  /\ runs = NoRuns
  /\ genAI = TRUE /\ teams = <<>> /\ history = <<>>
  /\ fnArgs = <<>> /\ fnValue = <<>>

EmptyStore ==
  /\ now = 0
  /\ matches = <<>>
  /\ predictions = <<>>
  /\ ret = Ret("none", 0, FALSE)

\* --------------------------------- specification: part_004 as deployed
\* OpenLigaDB reports a match as not finished, or finished with its final
\* score; its lastUpdate is old (0) or newer than any clock value
GradeGoals == {<<2, 1>>, <<2, 3>>}
GradeOlFixtures ==
  {OlFixture(id, 0, lu, FALSE, Null, Null) : id \in FixtureIds, lu \in {0, MaxTime + 1}}
    \cup {OlFixture(id, 0, lu, TRUE, g[1], g[2]) :
            id \in FixtureIds, lu \in {0, MaxTime + 1}, g \in GradeGoals}
GradePrimary ==
  {[ok |-> TRUE, items |-> s] :
     s \in SeqsUpTo({[id |-> id, date |-> 0] : id \in FixtureIds}, 1)}
GradeFallback ==
  {[throws |-> t, items |-> s] : t \in BOOLEAN, s \in SeqsUpTo(GradeOlFixtures, 1)}
GradeResults ==
  {ResultOf(FALSE, FALSE, Null, Null)}
    \cup {ResultOf(TRUE, TRUE, g[1], g[2]) : g \in GradeGoals}
GradeScripts ==
  {<<RespJson(<<>>)>>, <<RespJson(<<OracleObj(<<60, 20, 20>>, 95, "vip")>>)>>}

InitGrade ==
  /\ EmptyStore
  /\ version = "part_004"
  /\ IdleProcesses

NextGrade ==
  \/ Tick
  \/ \E scripts \in SeqsUpTo(GradeScripts, MaxMatches) : GenerateRun(scripts)
  \/ \E a \in GradePrimary : FetchAndStoreMatches(a, [throws |-> FALSE, items |-> <<>>])
  \/ \E b \in GradeFallback : FetchAndStoreMatches([ok |-> FALSE, items |-> <<>>], b)
  \/ \E results \in SeqsUpTo(GradeResults, MaxMatches) : FetchAndStoreResults(results)

SpecGrade == InitGrade /\ [][NextGrade]_vars

\* ------------- specification: part_004 after a forecast has been stored
\* The store after fetchAndStoreMatches created a scheduled OpenLigaDB match
\* and generateAllPredictions stored a forecast for it
InitFinish ==
  /\ now = 0
  /\ matches = <<MatchDoc("openligadb", <<"openliga", 1>>, Null, "scheduled",
                          0, Null, Null, "A", "B", 0)>>
  /\ \E x \in {<<60, 20, 20>>, <<20, 20, 60>>} :
       predictions = <<PredictionDoc(1, "vip", x, 95, "pending")>>
  /\ ret = Ret("none", 0, FALSE)
  /\ version = "part_004"
  /\ IdleProcesses

NextFinish ==
  \/ Tick
  \/ \E b \in GradeFallback : FetchAndStoreMatches([ok |-> FALSE, items |-> <<>>], b)
  \/ \E results \in SeqsUpTo(GradeResults, MaxMatches) : FetchAndStoreResults(results)

\* The jobs are started again and again by their triggers (the routes of
\* dataController.js, called by an external scheduler): a job that can do
\* something is eventually run
FairFinish ==
  /\ WF_vars(Tick)
  /\ WF_vars(\E b \in GradeFallback : FetchAndStoreMatches([ok |-> FALSE, items |-> <<>>], b))
  /\ WF_vars(\E results \in SeqsUpTo(GradeResults, MaxMatches) : FetchAndStoreResults(results))

SpecFinish == InitFinish /\ [][NextFinish]_vars /\ FairFinish

\* ------------------------- specification: the grader on its own inputs
\* evaluatePredictionsForMatch called, as fetchAndStoreResults calls it, with
\* a match it has just set to 'finished'
GradeMatch(mid) ==
  /\ version = "part_004"
  /\ mid \in 1..Len(matches)
  /\ ret.op = "none"
  /\ predictions' = evaluatePredictionsForMatch(predictions, mid, matches[mid])
  /\ ret' = Ret("grade", mid, FALSE)
  /\ UNCHANGED <<now, matches, version, aiVars, orchVars, genVars, auxVars>>

MaxGoals == 3
ProbValues == {20, 50, 60}
Triples == {<<h, d, a>> : h \in ProbValues, d \in ProbValues, a \in ProbValues}

\* a finished match with its score, and one pending forecast of it as the
\* generator stores it
InitGrader ==
  /\ now = 0
  /\ \E hg \in 0..MaxGoals, ag \in 0..MaxGoals :
       matches = <<MatchDoc("openligadb", <<"openliga", 1>>, Null, "finished", 0,
                            hg, ag, "A", "B", 0)>>
  /\ \E x \in Triples : predictions = <<PredictionDoc(1, "vip", x, 95, "pending")>>
  /\ ret = Ret("none", 0, FALSE)
  /\ version = "part_004"
  /\ IdleProcesses

NextGrader == \E mid \in 1..MaxMatches : GradeMatch(mid)

SpecGrader == InitGrader /\ [][NextGrader]_vars

\* ----------------- specification: the head cronService.js as deployed
\* Goalserve lists a fixture as not started; the history feed gives a final
\* score and may carry a manual prediction; the oracle answers a confident
\* forecast, two forecasts of one bucket, or an unconfident one
ValueA == <<60, 20, 20>>
ValueB == <<20, 20, 60>>
ForecastPayloads ==
  SeqsUpTo({GsFixture(sid, 0, "scheduled", "A", "B") : sid \in FixtureIds}, 1)
ForecastHistory ==
  SeqsUpTo({HistoryItem(sid, 0, 2, 1, "A", "B", ps) :
              sid \in FixtureIds,
              ps \in {<<>>, <<OracleObj(ValueB, 84, "vip")>>}}, 1)
ForecastScripts ==
  {<<RespJson(<<OracleObj(ValueA, 95, "vip")>>)>>,
   <<RespJson(<<OracleObj(ValueA, 95, "vip"), OracleObj(ValueB, 92, "vip")>>)>>,
   <<RespJson(<<OracleObj(ValueA, 84, "daily2")>>)>>}

InitForecast ==
  /\ EmptyStore
  /\ version = "cronService"
  /\ IdleProcesses

NextForecast ==
  \/ Tick
  \/ \E payload \in ForecastPayloads : GoalserveRun("ok", payload)
  \/ GoalserveRun("fail", <<>>)
  \/ \E items \in ForecastHistory : ImportHistoryRun("ok", items)
  \/ ImportHistoryRun("fail", <<>>)
  \/ \E scripts \in SeqsUpTo(ForecastScripts, MaxMatches) : GenerateRun(scripts)

SpecForecast == InitForecast /\ [][NextForecast]_vars

\* ------------------- specification: ingestion, generation by generation
\* the three generations of fetchAndStoreUpcomingMatches, each on its own
\* store; the head one with the history import that finishes its fixtures
IngestGs ==
  {GsFixture(sid, 0, st, "A", "B") : sid \in FixtureIds, st \in {"scheduled", "finished"}}
IngestFeed ==
  {FeedItem(id, MaxTime, f, "A", "B") : id \in FixtureIds, f \in BOOLEAN}
    \cup {FeedItem(1, 0, FALSE, "A", "B"), FeedItem(0, MaxTime, FALSE, "A", "B")}
IngestGs8 ==
  {Gs8Fixture(x[1], x[2], 0, "Ajax", "PSV", st) :
     x \in {<<1, 2>>, <<Null, 1>>, <<Null, 2>>}, st \in {"scheduled", "finished"}}
    \cup {Gs8Fixture(Null, Null, 0, "Ajax", "PSV", "scheduled"),
          Gs8Fixture(Null, Null, 0, " ajax", "PSV", "scheduled"),
          Gs8Fixture(Null, Null, Null, NoTeam, "PSV", "scheduled")}

InitIngest ==
  /\ EmptyStore
  /\ version \in {"cronService", "part_014", "part_008"}
  /\ IdleProcesses

NextIngest ==
  \/ Tick
  \/ \E payload \in SeqsUpTo(IngestGs, MaxMatches) : GoalserveRun("ok", payload)
  \/ GoalserveRun("fail", <<>>)
  \/ \E payload \in SeqsUpTo(IngestGs8, MaxMatches) : GoalserveRun8("ok", payload)
  \/ GoalserveRun8("fail", <<>>)
  \/ FetchUpcoming014(FALSE, GetFails, GetFails, GetFails, GetFails)
  \/ \E a \in SeqsUpTo(IngestFeed, 1) :
       FetchUpcoming014(TRUE, GetOk(a), GetOk(<<>>), GetFails, GetFails)
  \/ \E a \in SeqsUpTo(IngestFeed, 1) :
       FetchUpcoming014(TRUE, GetOk(<<>>), GetOk(a), GetFails, GetFails)
  \/ \E a \in SeqsUpTo(IngestFeed, 1), b \in SeqsUpTo(IngestFeed, 1) :
       FetchUpcoming014(TRUE, GetOk(a), GetFails, GetOk(b), GetFails)
  \/ \E a \in SeqsUpTo(IngestFeed, 1) :
       FetchUpcoming014(TRUE, GetFails, GetFails, GetOk(a), GetOk(<<>>))
  \/ \E a \in SeqsUpTo(IngestFeed, 1) :
       FetchUpcoming014(TRUE, GetFails, GetFails, GetFails, GetOk(a))

SpecIngest == InitIngest /\ [][NextIngest]_vars

\* --------------------------------- specification: one call of the oracle
\* the oracle errors, answers text without JSON, a valid list, a list with an
\* item the schema rejects, or an empty list
MaxCalls == 4
OracleAnswers ==
  {RespError, RespBadJson,
   RespJson(<<OracleObj(ValueA, 95, "vip")>>),
   RespJson(<<OracleObj(ValueA, 95, "vip"), OracleObj(ValueB, 950, "vip")>>),
   RespJson(<<>>)}

InitOracle ==
  /\ EmptyStore
  /\ version = "cronService"
  /\ aiScript \in SeqsUpTo(OracleAnswers, MaxCalls)
  /\ aiResult = NoResult
  /\ orchPrimary = NotRun /\ orchFallback = NotRun
  /\ genFailed = {}
  /\ dateIn = NoDateIn /\ dateOut = <<>> /\ legacy = "mdy"
  /\ httpScript = <<>> /\ httpResult = NoHttp
  /\ runs = NoRuns
  /\ genAI = TRUE /\ teams = <<>> /\ history = <<>>
  /\ fnArgs = <<>> /\ fnValue = <<>>

NextOracle == CallOracle

SpecOracle == InitOracle /\ [][NextOracle]_vars

\* ------------------ specification: generation cycles with a failing oracle
\* for a fixture the oracle fails on every call of every model, or answers
GenPayloads ==
  {<<GsFixture(1, 0, "scheduled", "A", "B")>>,
   <<GsFixture(2, 0, "scheduled", "A", "B")>>,
   <<GsFixture(1, 0, "scheduled", "A", "B"), GsFixture(2, 0, "scheduled", "A", "B")>>,
   <<GsFixture(2, 0, "scheduled", "A", NoTeam)>>}
GenScripts ==
  {<<>>,
   <<RespBadJson, RespBadJson, RespJson(<<OracleObj(ValueA, 95, "vip")>>)>>,
   <<RespJson(<<OracleObj(ValueB, 92, "daily2")>>)>>}

InitGen ==
  /\ EmptyStore
  /\ version = "cronService"
  /\ aiScript = <<>> /\ aiResult = NoResult
  /\ orchPrimary = NotRun /\ orchFallback = NotRun
  /\ genFailed = {}
  /\ dateIn = NoDateIn /\ dateOut = <<>> /\ legacy = "mdy"
  /\ httpScript = <<>> /\ httpResult = NoHttp
  /\ runs = NoRuns
  /\ genAI \in BOOLEAN /\ teams = <<>> /\ history = <<>>
  /\ fnArgs = <<>> /\ fnValue = <<>>

NextGen ==
  \/ Tick
  \/ \E payload \in GenPayloads : GoalserveRun("ok", payload)
  \/ \E scripts \in SeqsUpTo(GenScripts, MaxMatches) : GenerateRun(scripts)
  \/ GenerateRunNoKey

SpecGen == InitGen /\ [][NextGen]_vars

\* ------------------- specification: the provider chains, part by part
ChainFeed ==
  {FeedItem(1, MaxTime, FALSE, "A", "B"), FeedItem(2, 0, FALSE, "A", "B")}
ChainGets == {GetFails} \cup {GetOk(a) : a \in SeqsUpTo(ChainFeed, 1)}

ChainGs ==
  {GsFixture(1, 0, "scheduled", "A", "B"), GsFixture(2, 0, "scheduled", "A", "B"),
   GsFixture(2, Null, "scheduled", "A", "B")}

InitChain ==
  /\ EmptyStore
  /\ version \in {"part_011", "part_014", "part_009"}
  /\ IdleProcesses

NextChain ==
  \/ Tick
  \/ \E smToken \in BOOLEAN, gsToken \in BOOLEAN, sm \in ChainGets, gs \in ChainGets :
       FetchUpcoming011(smToken, sm, gsToken, gs)
  \/ \E cred \in BOOLEAN, today \in ChainGets, bl1 \in ChainGets :
       FetchUpcoming014(cred, today, GetFails, bl1, GetFails)
  \/ \E payload \in SeqsUpTo(ChainGs, MaxMatches) : GoalserveRun9("ok", payload)
  \/ GoalserveRun9("fail", <<>>)

SpecChain == InitChain /\ [][NextChain]_vars

\* ------------------- specification: the forecasts the generator returns
\* the oracle errors, or answers one object: well-behaved, unconfident, or
\* with probabilities outside 0..1
ValueWild == <<150, 20, 0 - 30>>
ClampAnswers ==
  {RespError,
   RespJson(<<OracleObj(ValueA, 95, "vip")>>),
   RespJson(<<OracleObj(ValueA, 50, "vip")>>),
   RespJson(<<OracleObj(ValueWild, 95, "vip")>>)}

InitClamp ==
  /\ EmptyStore
  /\ version \in {"cronService", "part_016"}
  /\ aiScript \in SeqsUpTo(ClampAnswers, 3)
  /\ aiResult = NoResult
  /\ orchPrimary = NotRun /\ orchFallback = NotRun
  /\ genFailed = {}
  /\ dateIn = NoDateIn /\ dateOut = <<>> /\ legacy = "mdy"
  /\ httpScript = <<>> /\ httpResult = NoHttp
  /\ runs = NoRuns
  /\ genAI = TRUE /\ teams = <<>> /\ history = <<>>
  /\ fnArgs = <<>> /\ fnValue = <<>>

NextClamp == GetPredictionsCall

SpecClamp == InitClamp /\ [][NextClamp]_vars

\* ----------------------- specification: the head-to-head of a fixture
\* History.find() gives the records in the order of the collection: short
\* collections in every order, and collections of more records of one pair
\* than the prompt takes, oldest first and newest first
H2HShort ==
  SeqsUpTo({HistoryRec("A", "B", 1), HistoryRec("B", "A", 2), HistoryRec("A", "C", 3)}, 3)
H2HLong ==
  {[k \in 1..(h2hCap + 1) |-> HistoryRec("A", "B", k)],
   [k \in 1..(h2hCap + 1) |-> HistoryRec("B", "A", h2hCap + 2 - k)]}

InitH2H ==
  /\ EmptyStore
  /\ version = "cronService"
  /\ aiScript = <<>> /\ aiResult = NoResult
  /\ orchPrimary = NotRun /\ orchFallback = NotRun
  /\ genFailed = {}
  /\ dateIn = NoDateIn /\ dateOut = <<>> /\ legacy = "mdy"
  /\ httpScript = <<>> /\ httpResult = NoHttp
  /\ runs = NoRuns
  /\ genAI = TRUE /\ teams = <<>> /\ history = <<>>
  /\ \E h \in {"A", "B"}, a \in {"B", "C"}, hist \in H2HShort \cup H2HLong :
       /\ h # a
       /\ fnArgs = [match |-> [homeTeam |-> h, awayTeam |-> a], history |-> hist]
  /\ fnValue = <<>>

NextH2H == BuildH2H

SpecH2H == InitH2H /\ [][NextH2H]_vars

\* --------------------------- specification: the winner of a fixture
\* a pair of scores: both sides there, or none
ScorePairs == {<<Null, Null>>} \cup {<<h, a>> : h \in 0..1, a \in 0..1}

\* the Match schema that goes with part_004 has the goals only
InitWinner ==
  /\ EmptyStore
  /\ version \in {"part_021", "part_004"}
  /\ aiScript = <<>> /\ aiResult = NoResult
  /\ orchPrimary = NotRun /\ orchFallback = NotRun
  /\ genFailed = {}
  /\ dateIn = NoDateIn /\ dateOut = <<>> /\ legacy = "mdy"
  /\ httpScript = <<>> /\ httpResult = NoHttp
  /\ runs = NoRuns
  /\ genAI = TRUE /\ teams = <<>> /\ history = <<>>
  /\ \E st \in {"finished", "scheduled"}, ft \in ScorePairs, goals \in ScorePairs,
        et \in ScorePairs, pen \in ScorePairs :
       /\ version = "part_004" => ft[1] = Null /\ et[1] = Null /\ pen[1] = Null
       /\ fnArgs = ScoreDoc(st, ft, goals, et, pen)
  /\ fnValue = <<>>

NextWinner ==
  \/ CalculateWinnerCall
  \/ ActualWinnerStep

SpecWinner == InitWinner /\ [][NextWinner]_vars

\* ------------------- specification: fixtures without an id of the feed
KeyFeed ==
  {RawMatch(1, 0, TRUE, "scheduled", "Ajax", "PSV"),
   RawMatch(Null, 0, TRUE, "scheduled", "Ajax", "PSV"),
   RawMatch(Null, Null, TRUE, "scheduled", "Ajax", "PSV"),
   RawMatch(Null, 0, FALSE, "scheduled", "Ajax", "PSV")}
KeyGs8 ==
  {Gs8Fixture(1, 2, 0, "Ajax", "PSV", "scheduled"),
   Gs8Fixture(Null, Null, 0, "Ajax", "PSV", "scheduled"),
   Gs8Fixture(Null, Null, 0, " ajax", "PSV", "scheduled"),
   Gs8Fixture(Null, Null, Null, "Ajax", "PSV", "finished")}

InitKeys ==
  /\ EmptyStore
  /\ version \in {"cronService", "part_008"}
  /\ IdleProcesses

NextKeys ==
  \/ Tick
  \/ \E payload \in SeqsUpTo(KeyFeed, 2) : fetchMatches("ok", payload)
  \/ fetchMatches("fail", <<>>)
  \/ \E payload \in SeqsUpTo(KeyGs8, 2) : GoalserveRun8("ok", payload)
  \/ GoalserveRun8("fail", <<>>)

SpecKeys == InitKeys /\ [][NextKeys]_vars

\* ------------------------------ specification: team resolution, by part
TeamDescs ==
  {TeamDesc(id, name, logo) :
     id \in {Null, 7}, name \in {"Ajax", "Ajax ", "PSV"}, logo \in {NoLogo, "logo.png"}}

InitTeams ==
  /\ EmptyStore
  /\ version \in {"cronService", "part_008", "part_014", "part_009"}
  /\ IdleProcesses

NextTeams == \E d \in TeamDescs : ResolveTeam(d)

SpecTeams == InitTeams /\ [][NextTeams]_vars

\* --------------------------- specification: two ingestion runs at once
ConcItems ==
  {FeedItem(id, d, FALSE, "A", "B") : id \in FixtureIds, d \in {0, MaxTime}}

InitConc ==
  /\ EmptyStore
  /\ version \in {"part_014", "cronService"}
  /\ aiScript = <<>> /\ aiResult = NoResult
  /\ orchPrimary = NotRun /\ orchFallback = NotRun
  /\ genFailed = {}
  /\ dateIn = NoDateIn /\ dateOut = <<>> /\ legacy = "mdy"
  /\ httpScript = <<>> /\ httpResult = NoHttp
  /\ runs \in {[p \in RunIds |-> Run(f[p], "start", <<>>)] : f \in [RunIds -> ConcItems]}
  /\ genAI = TRUE /\ teams = <<>> /\ history = <<>>
  /\ fnArgs = <<>> /\ fnValue = <<>>

NextConc ==
  \/ \E p \in RunIds : ConcFind(p)
  \/ \E p \in RunIds : ConcWrite(p)
  \/ \E p \in RunIds : ConcUpsert(p)

SpecConc == InitConc /\ [][NextConc]_vars

\* --------------------------- specification: history imports of part_014
HistoryItems ==
  {HistItem(id, 0, home, "PSV", 2, 1) : id \in {Null, 1}, home \in {"Ajax", "Ajax "}}
    \cup {HistItem(1, Null, "Ajax", "PSV", 2, 1),
          HistItem(Null, 0, "Ajax", "PSV", Null, Null),
          HistItem(2, 1, "PSV", "Ajax", 0, 0)}

InitHistory ==
  /\ EmptyStore
  /\ version = "part_014"
  /\ IdleProcesses

NextHistory ==
  \/ \E payload \in SeqsUpTo(HistoryItems, 2) : ImportHistory014("ok", payload)
  \/ ImportHistory014("fail", <<>>)

SpecHistory == InitHistory /\ [][NextHistory]_vars

\* --------------------- specification: two forecast upserts at once
\* two generations for fixture 1 are in flight, each about to store one
\* forecast of the oracle; the store may hold a forecast of the fixture
PredConcItems ==
  {PredictionDoc(1, b, x, 95, "pending") : b \in {"vip", "daily2"}, x \in {ValueA, ValueB}}

InitPredConc ==
  /\ now = 0
  /\ matches = <<MatchDoc("goalserve", <<>>, 1, "scheduled", 0, Null, Null, "A", "B", 0)>>
  /\ predictions \in {<<>>, <<PredictionDoc(1, "vip", ValueA, 95, "pending")>>}
  /\ ret = Ret("none", 0, FALSE)
  /\ version = "cronService"
  /\ aiScript = <<>> /\ aiResult = NoResult
  /\ orchPrimary = NotRun /\ orchFallback = NotRun
  /\ genFailed = {}
  /\ dateIn = NoDateIn /\ dateOut = <<>> /\ legacy = "mdy"
  /\ httpScript = <<>> /\ httpResult = NoHttp
  /\ runs \in {[p \in RunIds |-> Run(f[p], "start", <<>>)] : f \in [RunIds -> PredConcItems]}
  /\ genAI = TRUE /\ teams = <<>> /\ history = <<>>
  /\ fnArgs = <<>> /\ fnValue = <<>>

NextPredConc ==
  \/ \E p \in RunIds : PredUpsertFind(p)
  \/ \E p \in RunIds : PredUpsertWrite(p)

SpecPredConc == InitPredConc /\ [][NextPredConc]_vars

\* ------------------------------ specification: one HTTP call of a handler
HttpOutcomes == {HttpOk("payload"), HttpErr("e1"), HttpErr("e2"), HttpErr("e3")}

InitHttp ==
  /\ EmptyStore
  /\ version \in {"cronService", "part_014", "part_004"}
  /\ aiScript = <<>> /\ aiResult = NoResult
  /\ orchPrimary = NotRun /\ orchFallback = NotRun
  /\ genFailed = {}
  /\ dateIn = NoDateIn /\ dateOut = <<>> /\ legacy = "mdy"
  /\ httpScript \in [1..safeGetRetries -> HttpOutcomes]
  /\ httpResult = NoHttp
  /\ runs = NoRuns
  /\ genAI = TRUE /\ teams = <<>> /\ history = <<>>
  /\ fnArgs = <<>> /\ fnValue = <<>>

NextHttp ==
  \/ SafeGetCall
  \/ AxiosGetCall

SpecHttp == InitHttp /\ [][NextHttp]_vars

\* ------------------------------- specification: the date parsers applied
DateStrings ==
  {DateStr(sep, d, 9, 2019) : sep \in {".", "-", "/"}, d \in {5, 19}}
    \cup {DateStr("iso", 2019, 9, d) : d \in {5, 19}}
    \cup {DateStr("junk", 0, 0, 0)}
TimeStrings == {<<>>, <<15, 30>>}

InitDates ==
  /\ EmptyStore
  /\ version \in {"cronService", "part_008"}
  /\ aiScript = <<>> /\ aiResult = NoResult
  /\ orchPrimary = NotRun /\ orchFallback = NotRun
  /\ genFailed = {}
  /\ dateIn \in [date : DateStrings, time : TimeStrings]
  /\ dateOut = <<>>
  /\ legacy \in {"mdy", "invalid"}
  /\ httpScript = <<>> /\ httpResult = NoHttp
  /\ runs = NoRuns
  /\ genAI = TRUE /\ teams = <<>> /\ history = <<>>
  /\ fnArgs = <<>> /\ fnValue = <<>>

NextDates ==
  \/ ParseDateHead
  \/ ParseDateStep008

SpecDates == InitDates /\ [][NextDates]_vars


\* ===================================================== the claims
\* the outcome with the largest probability, when one is strictly largest
HasArgmax(x) ==
  \E k \in 1..3 : \A j \in (1..3) \ {k} : x[k] > x[j]
Argmax(x) ==
  LET k == CHOOSE k \in 1..3 : \A j \in (1..3) \ {k} : x[k] > x[j]
  IN <<"home", "draw", "away">>[k]

\* C5: grading is idempotent -- a forecast that is already won or lost keeps
\* its status through every later run of the grader (fetchAndStoreResults).
C5_GradedNeverRegraded ==
  [][ret'.op = "fetch-results" =>
       \A i \in 1..Len(predictions) :
          predictions[i].status \in {"won", "lost"}
            => predictions'[i].status = predictions[i].status]_vars

\* C6: for a finished fixture the grader sets a pending forecast to won
\* exactly when the argmax of its 1X2 triple is the actual outcome of the
\* goal counts, and to lost otherwise.
C6_GradesByArgmax ==
  ret.op = "grade" =>
    \A i \in 1..Len(predictions) :
       HasArgmax(predictions[i].oneXTwo) =>
         (predictions[i].status =
            IF Argmax(predictions[i].oneXTwo)
                 = ActualWinner(matches[1].homeGoals, matches[1].awayGoals)
            THEN "won" ELSE "lost")

\* the key a generation of the ingestion finds a stored fixture by
KeyOf(m) ==
  IF version = "cronService" THEN <<"static_id", <<m.static_id>>>>
  ELSE IF version = "part_014" THEN <<"externalId", m.externalId>>
  ELSE <<m.source, m.externalId>>

C2_FinishedNeverRegressed ==
  [][\A i \in 1..Len(matches) :
       matches[i].status = "finished"
         => matches'[i].status \notin {"scheduled", "upcoming"}]_vars

\* C8: if the primary provider gives zero fixtures or errors, the orchestrator
\* then fetches from the fallback provider and the run does not fail.
C8_FallbackOnEmptyOrError ==
  (ret.op = "fetch-upcoming"
     /\ (orchPrimary.outcome = "threw" \/ orchPrimary.items = 0))
    => (orchFallback.outcome = "returned" /\ ~ret.err)

\* C9: if the first model returns invalid JSON on every one of its attempts,
\* the generator goes on to the next model of the list, and a valid response
\* of that model is returned as the forecast list.
C9_ModelFallback ==
  (/\ ret.op = "call-ai"
   /\ Len(aiScript) >= maxRetries + 2
   /\ \A k \in 1..(maxRetries + 1) :
        aiScript[k].kind # "error" /\ ~ParseAttempt(aiScript[k]).ok
   /\ ParseAttempt(aiScript[maxRetries + 2]).ok)
    => /\ aiResult.ok
       /\ aiResult.model = 2
       /\ aiResult.list = aiScript[maxRetries + 2].items
       /\ aiResult.calls = maxRetries + 2

\* the first model answered without JSON twice and the second model's list came back
C9_Witness ==
  /\ ret.op = "call-ai"
  /\ aiScript = <<RespBadJson, RespBadJson, RespJson(<<OracleObj(ValueA, 95, "vip")>>)>>
  /\ aiResult.ok /\ aiResult.model = 2 /\ Len(aiResult.list) = 1

\* the forecasts stored for a match
ForecastsOf(ps, mid) == {ps[i] : i \in {j \in 1..Len(ps) : ps[j].matchId = mid}}

RECURSIVE SumLens(_)
SumLens(lists) == IF lists = <<>> THEN 0 ELSE Len(Head(lists)) + SumLens(Tail(lists))

\* C10: when every model exhausts its retry budget for a fixture, the caller
\* catches the generator's error, writes no forecast for that fixture in this
\* cycle, goes on with the remaining fixtures and returns its summary.
C10_FailureSkipsFixture ==
  [][ret'.op = "generate" =>
       \A scripts \in [1..Len(Upcoming(matches, now)) -> GenScripts] :
         GenerateRun(scripts) =>
           LET queue == Upcoming(matches, now)
               bothTeams(k) == matches[queue[k]].homeTeam # NoTeam
                           /\ matches[queue[k]].awayTeam # NoTeam
               stored == [k \in 1..Len(queue) |->
                            IF bothTeams(k) /\ callGenerativeAI(scripts[k]).ok
                            THEN getPredictionsFromAI(scripts[k]).list ELSE <<>>]
           IN /\ ~ret'.err
              /\ ret'.n = SumLens(stored)
              /\ \A k \in 1..Len(queue) :
                   /\ (bothTeams(k) /\ ~callGenerativeAI(scripts[k]).ok) =>
                        /\ callGenerativeAI(scripts[k]).calls = NumModels * (maxRetries + 1)
                        /\ queue[k] \in genFailed'
                        /\ ForecastsOf(predictions', queue[k])
                             = ForecastsOf(predictions, queue[k])
                   /\ \A j \in 1..Len(stored[k]) :
                        \E f \in ForecastsOf(predictions', queue[k]) :
                          /\ f.bucket = stored[k][j].bucket
                          /\ f.status = "pending"]_vars

\* the cycle failed on the first fixture and stored the forecast of the second
C10_Witness ==
  /\ ret.op = "generate" /\ ~ret.err /\ ret.n = 1
  /\ genFailed = {1}
  /\ ForecastsOf(predictions, 1) = {}
  /\ ForecastsOf(predictions, 2) # {}

\* the forecasts stored under a key
WithKey(ps, mid, b) == {i \in 1..Len(ps) : ps[i].matchId = mid /\ ps[i].bucket = b}

\* the last element of a generator's list that has bucket b, 0 when none
LastOf(list, b) ==
  IF \E k \in 1..Len(list) : list[k].bucket = b
  THEN CHOOSE k \in 1..Len(list) :
         list[k].bucket = b /\ \A j \in (k + 1)..Len(list) : list[j].bucket # b
  ELSE 0

\* C3: after any number of generation cycles there is exactly one stored
\* forecast per (fixtureId, bucket) ever generated, and it carries the values
\* of the latest generation for that key: no two stored forecasts share a
\* key, no key is ever lost, and a cycle leaves under every key it generated
\* one forecast with the last values the generator gave for it.
C3_OneForecastPerKey ==
  [] [/\ \A i, j \in 1..Len(predictions') :
          (predictions'[i].matchId = predictions'[j].matchId
           /\ predictions'[i].bucket = predictions'[j].bucket) => i = j
      /\ \A i \in 1..Len(predictions) :
          WithKey(predictions', predictions[i].matchId, predictions[i].bucket) # {}
      /\ ret'.op = "generate" =>
         \A scripts \in [1..Len(Upcoming(matches, now)) -> ForecastScripts] :
          GenerateRun(scripts) =>
            \A k \in 1..Len(Upcoming(matches, now)) :
              LET mid == Upcoming(matches, now)[k]
                  ai == getPredictionsFromAI(scripts[k])
              IN (matches[mid].homeTeam # NoTeam /\ matches[mid].awayTeam # NoTeam /\ ai.ok)
                 => \A b \in Buckets :
                      LastOf(ai.list, b) # 0 =>
                        /\ Cardinality(WithKey(predictions', mid, b)) = 1
                        /\ \A i \in WithKey(predictions', mid, b) :
                             /\ predictions'[i].oneXTwo = ai.list[LastOf(ai.list, b)].oneXTwo
                             /\ predictions'[i].confidence
                                  = ai.list[LastOf(ai.list, b)].confidence]_vars

\* a cycle upserted one key twice and one forecast, with the later values, is stored
C3_Witness ==
  /\ ret.op = "generate" /\ ret.n = 2
  /\ Len(predictions) = 1
  /\ predictions[1].oneXTwo = ValueB /\ predictions[1].confidence = 92

\* C4: the status of a stored forecast is changed only by the Result Grader,
\* only from pending to won or lost; ingestion, history import and a later
\* generation cycle leave the status of an existing forecast alone.
C4_StatusOnlyByGrader ==
  [][\A i \in 1..Len(predictions) :
       predictions'[i].status # predictions[i].status =>
         /\ ret'.op \in {"fetch-results", "grade"}
         /\ predictions[i].status = "pending"
         /\ predictions'[i].status \in {"won", "lost"}]_vars

\* C7: after any sequence of generation and import runs no stored forecast
\* has a confidence below the minimum.
C7_NoUnconfidentForecast ==
  \A i \in 1..Len(predictions) : predictions[i].confidence >= MinConfidence

\* C11: when a response carries several forecast objects and one of them
\* fails schema validation, only that object is dropped -- the valid objects
\* of the response are returned and the attempt is not a failed one.
C11_InvalidObjectDropped ==
  (/\ ret.op = "call-ai"
   /\ Len(aiScript) >= 1
   /\ aiScript[1].kind = "json"
   /\ \E i \in 1..Len(aiScript[1].items) : SchemaOk(aiScript[1].items[i])
   /\ \E i \in 1..Len(aiScript[1].items) : ~SchemaOk(aiScript[1].items[i]))
    => /\ aiResult.ok
       /\ aiResult.calls = 1
       /\ aiResult.list = FilterSeq(aiScript[1].items, SchemaOk)

\* C12: in every reachable Store state, every fixture with status finished
\* has non-null home and away goal counts.
C12_FinishedHasGoals ==
  \A i \in 1..Len(matches) :
    matches[i].status = "finished"
      => matches[i].homeGoals # Null /\ matches[i].awayGoals # Null

\* C13: a fixture's matchDateUtc is immutable after its first write -- no
\* step changes the kickoff instant a stored fixture already has.
C13_KickoffImmutable ==
  [][\A i \in 1..Len(matches) :
       matches[i].matchDateUtc # Null
         => /\ i <= Len(matches')
            /\ matches'[i].matchDateUtc = matches[i].matchDateUtc]_vars

\* C14: a fixture whose date cannot be parsed is dropped -- no stored fixture
\* is without a kickoff instant.
C14_UnparseableDateDropped ==
  \A i \in 1..Len(matches) : matches[i].matchDateUtc # Null

\* what the date policy gives: an ISO-8601 date as it stands, otherwise the
\* three numbers as day, month, year, at the given time of day in UTC
DayFirst(d, timeStr) ==
  IF d.sep = "iso" THEN YearFirstParse(d.a, d.b, d.c, TimeOr0(timeStr))
  ELSE IF d.sep \in {".", "-", "/"}
       THEN YearFirstParse(d.c, d.b, d.a, TimeOr0(timeStr))
       ELSE <<>>

\* C15: date parsing tries ISO-8601 first and otherwise splits the date on
\* '.', '-' or '/' into day/month/year and adds the given HH:MM (default
\* 00:00) in UTC; "19.09.2019" with "15:30" is 2019-09-19T15:30Z, and day and
\* month are never swapped.
C15_DateParsedDayFirst ==
  ret.op = "parse-date" => dateOut = DayFirst(dateIn.date, dateIn.time)

\* C16: an ingestion run (upcoming-fixture fetch or history import) always
\* returns an aggregate result and never raises to its caller on an HTTP
\* failure, a malformed payload or a Store error.
C16_IngestionNeverRaises == ret.op # "import-raised"

\* C17: every provider HTTP call is attempted at most the retry budget (3)
\* times, one attempt after another, stopping at the first success; when
\* every attempt fails, the error surfaced is the final attempt's error.
C17_RetryBudget ==
  ret.op = "http" =>
    /\ httpResult.attempts \in 1..safeGetRetries
    /\ \A j \in 1..(httpResult.attempts - 1) : ~httpScript[j].ok
    /\ httpResult.ok = httpScript[httpResult.attempts].ok
    /\ httpResult.val = httpScript[httpResult.attempts].val

\* three failed attempts with three different errors, the last one surfaced
C17_Witness ==
  /\ ret.op = "http"
  /\ ~httpResult.ok
  /\ httpResult.attempts = safeGetRetries
  /\ httpScript[1].val # httpScript[safeGetRetries].val
  /\ httpResult.val = httpScript[safeGetRetries].val

\* the stored fixtures of one key: externalId soccersapi-<id> or static_id
DocsOfKey(id) ==
  {i \in 1..Len(matches) :
     matches[i].externalId = <<"soccersapi", id>> \/ matches[i].static_id = id}

\* C18: two ingestion runs executing concurrently on payloads with the same
\* fixture key are safe -- under any interleaving, once both have written,
\* exactly one stored fixture exists for that key and its kickoff instant is
\* that of one of the two writes.
C18_ConcurrentRunsSafe ==
  (/\ \A p \in RunIds : runs[p].pc = "done"
   /\ runs[1].item.id = runs[2].item.id)
    => /\ Cardinality(DocsOfKey(runs[1].item.id)) = 1
       /\ \A i \in DocsOfKey(runs[1].item.id) :
            matches[i].matchDateUtc \in {runs[1].item.date, runs[2].item.date}

FinishedWithGoals(mid) ==
  /\ mid <= Len(matches)
  /\ matches[mid].status = "finished"
  /\ matches[mid].homeGoals # Null /\ matches[mid].awayGoals # Null
NonePending(mid) ==
  \A i \in 1..Len(predictions) :
    predictions[i].matchId = mid => predictions[i].status # "pending"

\* C19: whenever a fixture's status becomes finished with non-null goal
\* counts, by whichever path, the grader is eventually invoked for it: each
\* of its pending forecasts is eventually marked won or lost.
C19_FinishedEventuallyGraded ==
  \A mid \in 1..MaxMatches : FinishedWithGoals(mid) ~> NonePending(mid)

\* C20: in every reachable Store state, every stored forecast has a grading
\* status in {pending, won, lost} and a bucket in {vip, daily2, value5, big10}.
C20_ForecastEnums ==
  \A i \in 1..Len(predictions) :
    /\ predictions[i].status \in {"pending", "won", "lost"}
    /\ predictions[i].bucket \in Buckets

\* C21: when a provider has no credentials configured and another provider
\* is configured, that provider is skipped without an error and the
\* remaining provider of the chain is still fetched in the same run.
C21_UnconfiguredProviderSkipped ==
  [][(/\ version = "part_014"
      /\ ret'.op = "fetch-upcoming"
      /\ \E b \in SeqsUpTo(IngestFeed, 1) :
           FetchUpcoming014(FALSE, GetFails, GetFails, GetOk(b), GetFails))
       => (orchFallback'.outcome = "returned" /\ ~ret'.err)]_vars

\* C22: when no provider is configured at all, the ingestion run fails with
\* a configuration error surfaced to the caller instead of returning a
\* normal zero-count result.
C22_NoProviderIsConfigError ==
  (/\ ret.op = "fetch-upcoming"
   /\ orchPrimary.outcome = "unconfigured"
   /\ orchFallback.outcome = "unconfigured")
    => ret.err

\* C24: if every provider fails in an ingestion run, the run returns a
\* failure result and has had no effect on the Store.
C24_ExhaustionHasNoEffect ==
  [][(/\ ret'.op = "fetch-upcoming"
      /\ \/ \E today \in ChainGets :
              FetchUpcoming014(TRUE, today, GetFails, GetFails, GetFails)
         \/ FetchUpcoming011(TRUE, GetFails, TRUE, GetFails))
       => (ret'.err /\ matches' = matches)]_vars

\* C23: when a forecast is requested and no oracle credentials are
\* configured, the generation run fails explicitly and the configuration
\* failure is surfaced to the caller of the run, not swallowed as a
\* per-fixture skip.
C23_NoOracleKeySurfaced ==
  (ret.op = "generate" /\ ~genAI /\ genFailed # {}) => ret.err

\* C25: a failure while parsing or storing one fixture of a batch skips only
\* that fixture -- every other fixture of the payload is still stored and
\* the run does not fail.
C25_ItemFailureSkipsItem ==
  [][(version = "part_009" /\ ret'.op = "goalserve")
       => \A payload \in SeqsUpTo(ChainGs, MaxMatches) :
            GoalserveRun9("ok", payload)
              => /\ ~ret'.err
                 /\ \A k \in 1..Len(payload) :
                      payload[k].date # Null
                        => \E i \in 1..Len(matches') :
                             matches'[i].static_id = payload[k].static_id]_vars

\* whether a stored team answers a descriptor: by the provider's id when the
\* descriptor has one, otherwise by the trimmed name
Answers(t, d) ==
  IF d.id # Null THEN t.team_id = d.id
  ELSE TrimName(t.name) = TrimName(d.name)

\* C26: team resolution matches an existing team by provider external id if
\* the descriptor has one, else by exact normalized name, else creates one;
\* so a descriptor resolves to an existing team, with no team created and
\* no error, whenever a team with the same id or (absent an id) the same normalized
\* name exists.
C26_TeamResolutionOrder ==
  [][ret'.op = "team" =>
       \A d \in TeamDescs :
         (ResolveTeam(d) /\ \E i \in 1..Len(teams) : Answers(teams[i], d))
           => Len(teams') = Len(teams) /\ ~ret'.err]_vars

\* C27: when a team descriptor matches an existing team, the merge never
\* replaces a populated metadata field with null: a field populated before
\* the upsert is still populated after it.
C27_MergeKeepsPopulated ==
  [][\A i \in 1..Len(teams) :
       /\ teams[i].logoUrl # NoLogo => teams'[i].logoUrl # NoLogo
       /\ teams[i].name # NoTeam => teams'[i].name # NoTeam
       /\ teams[i].team_id # Null => teams'[i].team_id # Null]_vars

\* a stored fixture that came without an id of the provider
KeyedByFallback(r) ==
  r.externalId # <<>> /\ r.externalId[1] \in {"fallback", "goalserve_fallback"}

\* C28: a fixture that arrives without a provider-stable id is resolved by
\* the composite key (league, normalized date, home team name, away team
\* name): no two stored fixtures that came without an id have the same
\* date and the same normalized team names.
C28_CompositeKeyResolves ==
  \A i, j \in 1..Len(matches) :
    (/\ i < j
     /\ KeyedByFallback(matches[i]) /\ KeyedByFallback(matches[j])
     /\ matches[i].matchDateUtc = matches[j].matchDateUtc
     /\ normalizeString(matches[i].homeTeam) = normalizeString(matches[j].homeTeam))
      => normalizeString(matches[i].awayTeam) # normalizeString(matches[j].awayTeam)

\* C29: upcoming ingestion stores a parsed fixture if and only if its
\* kickoff lies in the retention window [now, now + window], both ends
\* included, whatever the provider: every fixture an ingestion run adds to
\* the store has its kickoff inside the window of the run.
C29_StoredInsideWindow ==
  [][ret'.op \in {"goalserve", "fetch-upcoming", "fetch-matches"} =>
       \A i \in (Len(matches) + 1)..Len(matches') :
         withinNext24Hours(matches'[i].matchDateUtc, now)]_vars

\* the largest probability of a triple is held by two of its entries
TiedAtTop(x) ==
  /\ Len(x) = 3
  /\ \E a, b \in 1..3 : a # b /\ x[a] = x[b] /\ \A c \in 1..3 : x[c] <= x[a]

\* C30: when two probabilities of the 1X2 triple of a forecast are exactly
\* equal (and no third is larger), the predicted outcome is draw, and the
\* grader grades with it: the forecast is won exactly when the fixture
\* ended in a draw.
C30_TieBreaksToDraw ==
  ret.op = "grade" =>
    \A i \in 1..Len(predictions) :
       TiedAtTop(predictions[i].oneXTwo) =>
         /\ PredictedWinner(predictions[i].oneXTwo) = "draw"
         /\ predictions[i].status = "won"
              <=> ActualWinner(matches[1].homeGoals, matches[1].awayGoals) = "draw"

\* the three scores of a fixture in the order they decide: full time (the
\* goal counts when the document has no full-time score), extra time,
\* penalties; a score the document does not have is level
DecidingScores(m) ==
  <<IF m.ft_score # Null THEN <<m.ft_score, m.ft_score_away>>
    ELSE IF m.homeGoals # Null THEN <<m.homeGoals, m.awayGoals>> ELSE <<0, 0>>,
    IF m.et_score # Null THEN <<m.et_score, m.et_score_away>> ELSE <<0, 0>>,
    IF m.pen_score # Null THEN <<m.pen_score, m.pen_score_away>> ELSE <<0, 0>>>>

\* C31: the actual outcome of a finished fixture is decided by the
\* full-time score; only if that is level by the extra-time score; only if
\* that is level too by the penalty score; it is draw only when all three
\* are level.
C31_WinnerByScoreOrder ==
  (ret.op = "calculate-winner" /\ fnArgs.status = "finished") =>
    LET sc == DecidingScores(fnArgs)
        open == {k \in 1..3 : sc[k][1] # sc[k][2]}
    IN IF open = {} THEN fnValue = "draw"
       ELSE LET k == CHOOSE k \in open : \A j \in open : k <= j
            IN fnValue = IF sc[k][1] > sc[k][2] THEN "home" ELSE "away"

\* a fixture level after full time and extra time that the penalties decide
C31_Witness ==
  /\ ret.op = "calculate-winner" /\ fnArgs.status = "finished"
  /\ fnArgs.ft_score = 1 /\ fnArgs.ft_score_away = 1
  /\ fnArgs.et_score = 1 /\ fnArgs.et_score_away = 1
  /\ fnArgs.pen_score = 0 /\ fnArgs.pen_score_away = 1
  /\ fnValue = "away"

\* C32: every probability field of every forecast the generator returns
\* lies in [0,1] (0..100 percent), whatever numbers the oracle produced and
\* although the schema validation has passed.
C32_ProbabilitiesClamped ==
  (ret.op = "get-predictions" /\ fnValue.ok) =>
    \A i \in 1..Len(fnValue.list) :
      \A k \in 1..3 : fnValue.list[i].oneXTwo[k] >= 0 /\ fnValue.list[i].oneXTwo[k] <= 100

\* C33: the historical records given to the oracle for a fixture are
\* exactly those of the fixture's unordered team pair, most recent first,
\* and at most the fixed count: all of them when there are no more than the
\* cap, otherwise the most recent ones.
C33_RecentHeadToHead ==
  ret.op = "h2h" =>
    LET all == FilterSeq(fnArgs.history, LAMBDA h : SamePair(h, fnArgs.match))
    IN /\ Len(fnValue) = Min(h2hCap, Len(all))
       /\ \A i \in 1..Len(fnValue) : SamePair(fnValue[i], fnArgs.match)
       /\ \A i \in 1..Len(fnValue) : \A j \in (i + 1)..Len(fnValue) :
            fnValue[i].matchDateUtc >= fnValue[j].matchDateUtc
       /\ \A i \in 1..Len(all) :
            (\A j \in 1..Len(fnValue) : fnValue[j] # all[i])
              => \A j \in 1..Len(fnValue) : all[i].matchDateUtc <= fnValue[j].matchDateUtc

\* C34: an ingestion run goes Idle -> Fetching(source1) -> ... -> Idle: the
\* providers are fetched one at a time in priority order, source N+1 only
\* after source N has failed, and none after one has succeeded; so when a
\* run is over and its second provider was fetched, the first one had not
\* succeeded.
C34_NextSourceOnlyAfterFailure ==
  (ret.op = "fetch-upcoming" /\ orchFallback.outcome \in {"returned", "threw"})
    => orchPrimary.outcome # "returned"

\* the stored forecasts of one (fixture, bucket)
ForecastsOfKey(mid, b) ==
  {i \in 1..Len(predictions) : predictions[i].matchId = mid /\ predictions[i].bucket = b}

\* C35: when forecast generation for the same fixture runs concurrently,
\* the forecast upserts stay atomic per (fixture, bucket): under every
\* interleaving, once both upserts of one key are done, exactly one stored
\* forecast has that key.
C35_ForecastUpsertAtomic ==
  (/\ \A p \in RunIds : runs[p].pc = "done"
   /\ runs[1].item.bucket = runs[2].item.bucket)
    => Cardinality(ForecastsOfKey(runs[1].item.matchId, runs[1].item.bucket)) = 1

\* C36: in every reachable Store state, a forecast with status won or lost
\* belongs to a fixture whose status is finished and whose goal counts are
\* not null.
C36_GradedBelongsToFinished ==
  \A i \in 1..Len(predictions) :
    predictions[i].status \in {"won", "lost"}
      => /\ predictions[i].matchId \in 1..Len(matches)
         /\ FinishedWithGoals(predictions[i].matchId)

\* C37: after any sequence of ingestion runs, with sightings of the same
\* team sometimes with and sometimes without an external id, no two stored
\* Team records have the same name.
C37_TeamNamesUnique ==
  \A i, j \in 1..Len(teams) :
    (i # j /\ teams[i].name # NoTeam) => teams[i].name # teams[j].name

\* C38: the newly-created count an ingestion run returns equals the number
\* of fixtures that were not in the Store before the run and are in it
\* after: an upsert that only updated a fixture is not counted, and every
\* insert is.
C38_CountIsInserts ==
  [][(/\ now' = now
      /\ ret'.op \in {"goalserve", "fetch-upcoming"}
      /\ ~ret'.err)
       => ret'.n = Len(matches') - Len(matches)]_vars

\* the attempts callGenerativeAI may make, and the first response of the
\* oracle that parses and validates (0 when none of them does)
CallBudget == NumModels * (maxRetries + 1)
FirstValid(script) ==
  IF \E k \in 1..CallBudget : ParseAttempt(Resp(script, k)).ok
  THEN CHOOSE k \in 1..CallBudget :
         /\ ParseAttempt(Resp(script, k)).ok
         /\ \A j \in 1..(k - 1) : ~ParseAttempt(Resp(script, j)).ok
  ELSE 0

\* C39: callGenerativeAI invokes the oracle at most (number of models) x
\* (maxRetries + 1) times, takes the models in list order, invokes nothing
\* after an attempt has returned a valid list, and ends with that list or
\* with the all-models-failed error.
C39_BoundedOrderedCalls ==
  ret.op = "call-ai" =>
    /\ aiResult.calls <= CallBudget
    /\ IF FirstValid(aiScript) = 0
       THEN ~aiResult.ok /\ ret.err
       ELSE /\ aiResult.ok /\ ~ret.err
            /\ aiResult.calls = FirstValid(aiScript)
            /\ aiResult.list = Resp(aiScript, FirstValid(aiScript)).items
            /\ aiResult.model = ((aiResult.calls - 1) \div (maxRetries + 1)) + 1

\* every model failed on each of its attempts after the oracle had answered
\* without a valid list, and the call ended with the error
C39_Witness ==
  /\ ret.op = "call-ai" /\ ret.err
  /\ Len(aiScript) = MaxCalls
  /\ ~aiResult.ok /\ aiResult.calls = CallBudget

\* the items of a payload the import does not pass over
Importable(payload) ==
  {k \in 1..Len(payload) :
     payload[k].home # NoTeam /\ payload[k].away # NoTeam /\ payload[k].date # Null}

\* C40: importing the same history payload twice creates no additional
\* HistoricalRecord: the second import reports created = 0, matches each
\* item to a record the first import wrote, and leaves the number of
\* records unchanged.
C40_ReimportCreatesNothing ==
  [][(/\ ret.op = "import-history" /\ ~ret.err
      /\ ret'.op = "import-history" /\ ~ret'.err
      /\ fnArgs' = fnArgs)
       => /\ ret'.n = 0
          /\ Len(history') = Len(history)
          /\ fnValue' = Cardinality(Importable(fnArgs'))]_vars

\* the second import of a payload that the first import created a record for
C40_Witness ==
  /\ ret.op = "import-history" /\ ~ret.err /\ ret.n = 0
  /\ Len(fnArgs) = 2 /\ fnValue = 2
  /\ Len(history) >= 1

====
